---------------------------- MODULE Spec2Model ----------------------------
(***************************************************************************)
(* A model of the ingestion pipeline of pytsetmc-api:                      *)
(*   - the retrying transport  (BaseService._make_request wrapped by       *)
(*     utils.retry_on_failure),                                            *)
(*   - the rate-limit gate     (BaseService._rate_limit, and the           *)
(*     asynchronous request path that does not pass through it),           *)
(*   - the date validation     (utils.validate_jalali_date,                *)
(*     BaseService._validate_date_range) and the validation prefix of the  *)
(*     date-ranged public operations,                                      *)
(*   - the multi-day intraday fetches of TradingService.                   *)
(*                                                                         *)
(* Strings of the program are sequences of one-character strings, so that  *)
(* splitting, substitution, parsing and Python's string comparison are     *)
(* computed as the code computes them.  Time is counted in ticks of 100    *)
(* ms (the minimum request interval of the code, 0.1 s, is one tick).      *)
(***************************************************************************)
EXTENDS Integers, Sequences, FiniteSets, TLC

VARIABLES
    \* ---- transport: one service instance, one _make_request at a time
    max_retries,         \* self.max_retries, the configured retry count
    pc,                  \* position of the retry wrapper
    attempt,             \* loop index of the wrapper
    current_delay,       \* the wrapper's current_delay, in ticks
    last_exception,      \* the wrapper's last_exception
    outcome,             \* what the call returned or raised
    http_calls,          \* session.request calls of the current _make_request
    responses,           \* what the upstream did on each of those calls
    slept,               \* the time.sleep arguments of the wrapper, in order
    now,                 \* time.time() seen by this service
    last_request_time,   \* self._last_request_time
    requests_made,       \* _make_request calls started so far
    \* ---- rate-limit gate: the service instances of one process
    clock,               \* time.time() of the process
    gate_last,           \* self._last_request_time of each service instance
    wire,                \* the last two outbound HTTP calls of the process
    \* ---- date validation: one call of BaseService._validate_date_range
    start_in,            \* what the caller wrote as start_date
    end_in,              \* what the caller wrote as end_date
    range_result,        \* None until _validate_date_range has returned or raised
    range_message,       \* the message of the ValidationError it raised, or <<>>
    \* ---- one call of a date-ranged public operation
    op_call,             \* the operation and its arguments
    op_pc,               \* "idle", "running" or "done"
    op_step,             \* the next step of the operation's body
    op_raised,           \* the exception raised inside the try block, "" when none
    op_outcome,          \* None until the operation has returned or raised
    net_calls,           \* _make_request calls made by the operation so far
    \* ---- get_intraday_trades_history, after validation and get_web_id
    th_pc,               \* "idle", "request", "parsing", "fetching" or "done"
    th_range,            \* start_date and end_date as the caller wrote them
    feed,                \* the items of the trading-day response read so far
    trading_days,        \* the days kept by _get_trading_days, in feed order
    day_fetch,           \* what the upstream did for each day fetched so far
    results,             \* the non-empty per-day frames, in loop order
    th_outcome,          \* None until the operation has returned or raised
    \* ---- get_intraday_ob_history, from the list of trading days onwards
    ob_pc,               \* "idle", "gathering" or "done"
    ob_days,             \* trading_days: one _fetch_day_ob task per entry
    task_pc,             \* per task: "created", "threshold", "book" or "done"
    task_limits,         \* per task: the day's price limits once received
    task_frame,          \* per task: the frame it returned
    completion,          \* the tasks in the order they finished
    ob_outcome,          \* None until the operation has returned or raised
    \* ---- the calendar functions of utils applied to one argument
    cal_in,              \* the argument as the caller wrote it
    cal_pc,              \* "input", "validated", "converted" or "back"
    cal_valid,           \* what validate_jalali_date returned or raised
    cal_greg,            \* what convert_jalali_to_gregorian returned or raised
    cal_back,            \* what convert_gregorian_to_jalali returned
    \* ---- _parse_price_response on one response text, then _clean_dataframe
    pp_pc,               \* "parsing", "parsed" or "done"
    pp_lines,            \* the lines of the text read so far
    price_records,       \* the records appended so far
    pp_source,           \* per record: the number of the line it came from
    pp_frame,            \* the frame the parser returned
    pp_clean,            \* the frame after _clean_dataframe
    \* get_index_history (market_service.py)
    ix_pc,               \* "idle", "adj_request", "ohlc_request", "done"
    ix_args,             \* just_adj_close and ignore_date of the call
    ix_adj,              \* indexB2 of the adjusted-close response
    ix_ohlc,             \* the rows of the OHLC response text
    ix_outcome,          \* the table returned or the error raised
    \* _filter_by_date_range (price_service.py)
    fl_data,             \* the parsed table
    fl_range,            \* start_date and end_date
    fl_nanoseconds,      \* whether pd.to_datetime is bound to nanosecond timestamps
    fl_result,           \* None until the filter has returned
    \* ---- StockService.search
    se_query,            \* the query search was called with
    se_pc,               \* position of search: idle, new, old, done
    se_responses,        \* the answers of the upstream to the requests of search
    se_listed,           \* the instruments those answers contained
    se_result,           \* None, the table returned, or the error raised
    \* ---- DataService.build_stock_list
    sl_args,             \* markets and detailed_list of the call
    sl_pages,            \* the listings the upstream sent for the three markets
    sl_detailed,         \* the web ids resolved for Payeh tickers, the ids whose detail page was read
    sl_result            \* None, the table returned, or the error raised

tvars == <<max_retries, pc, attempt, current_delay, last_exception, outcome,
           http_calls, responses, slept, now, last_request_time, requests_made>>

gvars == <<clock, gate_last, wire>>

dvars == <<start_in, end_in, range_result, range_message>>

ovars == <<op_call, op_pc, op_step, op_raised, op_outcome, net_calls>>

thvars == <<th_pc, th_range, feed, trading_days, day_fetch, results, th_outcome>>

obvars == <<ob_pc, ob_days, task_pc, task_limits, task_frame, completion, ob_outcome>>

calvars == <<cal_in, cal_pc, cal_valid, cal_greg, cal_back>>

ppvars == <<pp_pc, pp_lines, price_records, pp_source, pp_frame, pp_clean>>
ixvars == <<ix_pc, ix_args, ix_adj, ix_ohlc, ix_outcome>>
flvars == <<fl_data, fl_range, fl_nanoseconds, fl_result>>
sevars == <<se_query, se_pc, se_responses, se_listed, se_result>>
slvars == <<sl_args, sl_pages, sl_detailed, sl_result>>

vars == <<tvars, gvars, dvars, ovars, thvars, obvars, calvars, ppvars, ixvars, flvars, sevars, slvars>>

-----------------------------------------------------------------------------
(* Bounds of the model *)

\* the values the max_retries setting is drawn from are 0..MaxConfigRetries
MaxConfigRetries == 3
\* _make_request calls in one behaviour of the transport
MaxRequests == 2
\* ticks the clock of the rate-limit gate may advance
GateHorizon == 3

-----------------------------------------------------------------------------
(* Program constants *)

\* @retry_on_failure(max_retries=3) on _make_request
DecoratorMaxRetries == 3
\* retry_on_failure's default delay, 1.0 s, in ticks of 100 ms
RetryDelay == 10
\* retry_on_failure's default backoff_factor, 2.0
BackoffFactor == 2
\* self._min_request_interval, 0.1 s, in ticks of 100 ms
MinRequestInterval == 1
\* time.time() is far from the initial self._last_request_time = 0
StartTime == 100

-----------------------------------------------------------------------------
(* The transport: BaseService._make_request under retry_on_failure *)

None == [kind |-> "None"]

\* What one session.request call can meet upstream (redirects are followed by
\* requests itself, so the final status is a 2xx, a 4xx or a 5xx).
Statuses == {200, 404, 429, 500}

Upstream ==
    [net : {"response"}, status : Statuses]
      \cup [net : {"Timeout", "ConnectionError", "RequestException"}, status : {0}]

\* requests.Response.ok: the status is below 400
ResponseOk(up) == up.status < 400

Return(up) == [tag |-> "return", kind |-> "Response", status |-> up.status]
Raise(kind, status) == [tag |-> "raise", kind |-> kind, status |-> status]

\* TSETMCRateLimitError.__init__(message, retry_after=None, limit_type=None):
\* the attributes of the exception object.
TSETMCRateLimitError(retry_after, limit_type) ==
    [kind |-> "RateLimitError", retry_after |-> retry_after, limit_type |-> limit_type]

\* `raise TSETMCRateLimitError("Rate limit exceeded")`: the message alone is
\* passed, no header of the response is read, the other parameters keep
\* their defaults.
RateLimitExceeded == TSETMCRateLimitError(None, None)

\* One execution of the undecorated body of _make_request, after the
\* session.request call met `up`: the response, or the typed error raised.
MakeRequestBody(up) ==
    IF up.net = "Timeout" THEN Raise("NetworkError", 0)
    ELSE IF up.net = "ConnectionError" THEN Raise("NetworkError", 0)
    ELSE IF up.net = "RequestException" THEN Raise("NetworkError", 0)
    ELSE IF up.status = 429 THEN Raise("RateLimitError", 0)
    ELSE IF ~ResponseOk(up) THEN Raise("ApiError", up.status)
    ELSE Return(up)

\* `except exceptions as e` of the wrapper with exceptions=(Exception,): every
\* error the body raises is an Exception, hence caught and retried.
CaughtByRetry(res) ==
    res.tag = "raise"
      /\ res.kind \in {"NetworkError", "ApiError", "RateLimitError"}

\* A wrapper that loops once more than its budget.
RetryLimitExceeded == DecoratorMaxRetries + 1

\* The retry budget the wrapper loops over: the decorator's literal argument.
RetryLimit == DecoratorMaxRetries

\* A wrapper that waits the same delay before every retry.
SameDelay(delay) == delay

\* current_delay *= backoff_factor
NextDelay(delay) == delay * BackoffFactor

\* A gate that never sleeps.
RateLimitNoSleep(t, l) == 0

\* BaseService._rate_limit at clock t with last request time l: the sleep.
RateLimitSleep(t, l) ==
    IF t - l < MinRequestInterval THEN MinRequestInterval - (t - l) ELSE 0

TFrame == UNCHANGED <<gvars, dvars, ovars, thvars, obvars, calvars, ppvars, ixvars, flvars, sevars, slvars>>

TQuiet ==
    /\ max_retries = DecoratorMaxRetries
    /\ pc = "idle"
    /\ attempt = 0
    /\ current_delay = 0
    /\ last_exception = None
    /\ outcome = None
    /\ http_calls = 0
    /\ responses = <<>>
    /\ slept = <<>>
    /\ now = StartTime
    /\ last_request_time = 0
    /\ requests_made = 0

TInit ==
    /\ max_retries \in 0..MaxConfigRetries
    /\ pc = "idle"
    /\ attempt = 0
    /\ current_delay = 0
    /\ last_exception = None
    /\ outcome = None
    /\ http_calls = 0
    /\ responses = <<>>
    /\ slept = <<>>
    /\ now = StartTime
    /\ last_request_time = 0
    /\ requests_made = 0

\* wrapper(*args): current_delay = delay; last_exception = None; the loop starts
MakeRequest ==
    /\ pc = "idle"
    /\ requests_made < MaxRequests
    /\ pc' = "attempt"
    /\ attempt' = 0
    /\ current_delay' = RetryDelay
    /\ last_exception' = None
    /\ outcome' = None
    /\ http_calls' = 0
    /\ responses' = <<>>
    /\ slept' = <<>>
    /\ requests_made' = requests_made + 1
    /\ UNCHANGED <<max_retries, now, last_request_time>>
    /\ TFrame

\* One pass of the loop whose func(...) returns: the wrapper returns it.
AttemptReturns(up) ==
    /\ pc = "attempt"
    /\ MakeRequestBody(up).tag = "return"
    /\ LET t == now + RateLimitSleep(now, last_request_time) IN
         /\ now' = t
         /\ last_request_time' = t
    /\ http_calls' = http_calls + 1
    /\ responses' = Append(responses, up)
    /\ outcome' = MakeRequestBody(up)
    /\ pc' = "returned"
    /\ UNCHANGED <<max_retries, attempt, current_delay, last_exception, slept,
                   requests_made>>
    /\ TFrame

\* One pass whose func(...) raises, with retries left: sleep, back off, loop.
AttemptRetries(up) ==
    /\ pc = "attempt"
    /\ CaughtByRetry(MakeRequestBody(up))
    /\ attempt # RetryLimit
    /\ LET t == now + RateLimitSleep(now, last_request_time) IN
         /\ now' = t + current_delay
         /\ last_request_time' = t
    /\ http_calls' = http_calls + 1
    /\ responses' = Append(responses, up)
    /\ last_exception' = MakeRequestBody(up)
    /\ slept' = Append(slept, current_delay)
    /\ current_delay' = NextDelay(current_delay)
    /\ attempt' = attempt + 1
    /\ UNCHANGED <<max_retries, pc, outcome, requests_made>>
    /\ TFrame

\* The pass with attempt == max_retries whose func(...) raises: break, then
\* raise last_exception.
AttemptGivesUp(up) ==
    /\ pc = "attempt"
    /\ CaughtByRetry(MakeRequestBody(up))
    /\ attempt = RetryLimit
    /\ LET t == now + RateLimitSleep(now, last_request_time) IN
         /\ now' = t
         /\ last_request_time' = t
    /\ http_calls' = http_calls + 1
    /\ responses' = Append(responses, up)
    /\ last_exception' = MakeRequestBody(up)
    /\ outcome' = MakeRequestBody(up)
    /\ pc' = "raised"
    /\ UNCHANGED <<max_retries, attempt, current_delay, slept, requests_made>>
    /\ TFrame

\* The caller takes the result; dt ticks pass before its next request.
Finish(dt) ==
    /\ pc \in {"returned", "raised"}
    /\ pc' = "idle"
    /\ now' = now + dt
    /\ UNCHANGED <<max_retries, attempt, current_delay, last_exception, outcome,
                   http_calls, responses, slept, last_request_time,
                   requests_made>>
    /\ TFrame

TNext ==
    \/ MakeRequest
    \/ \E up \in Upstream : AttemptReturns(up)
    \/ \E up \in Upstream : AttemptRetries(up)
    \/ \E up \in Upstream : AttemptGivesUp(up)
    \/ \E dt \in 0..1 : Finish(dt)

-----------------------------------------------------------------------------
(* The rate-limit gate across the service instances of one process *)

\* TSETMCClient._init_services builds one BaseService per service; each holds
\* its own _last_request_time.  Two of them are enough to tell a shared gate
\* from a per-instance one.
Services == {"price", "trading"}

GFrame == UNCHANGED <<tvars, dvars, ovars, thvars, obvars, calvars, ppvars, ixvars, flvars, sevars, slvars>>

GInit ==
    /\ clock = StartTime
    /\ gate_last = [s \in Services |-> 0]
    /\ wire = <<>>

\* The outbound calls of the process, the last two kept.
Sent(w, call) == IF Len(w) < 2 THEN Append(w, call) ELSE <<w[2], call>>

\* Time passes (parsing, the caller's own work, a retry sleep).
Tick ==
    /\ clock < StartTime + GateHorizon
    /\ clock' = clock + 1
    /\ UNCHANGED <<gate_last, wire>>
    /\ GFrame

\* One pass of _make_request on instance s: self._rate_limit(), then
\* session.request.
SyncCall(s) ==
    /\ clock + RateLimitSleep(clock, gate_last[s]) <= StartTime + GateHorizon
    /\ LET t == clock + RateLimitSleep(clock, gate_last[s]) IN
         /\ clock' = t
         /\ gate_last' = [gate_last EXCEPT ![s] = t]
         /\ wire' = Sent(wire, [t |-> t, svc |-> s, path |-> "sync",
                                 slept |-> RateLimitSleep(clock, gate_last[s])])
    /\ GFrame

\* _make_async_request on instance s: session.request, with no call of
\* _rate_limit and no update of _last_request_time.
AsyncCall(s) ==
    /\ wire' = Sent(wire, [t |-> clock, svc |-> s, path |-> "async", slept |-> 0])
    /\ UNCHANGED <<clock, gate_last>>
    /\ GFrame

GNext ==
    \/ Tick
    \/ \E s \in Services : SyncCall(s)
    \/ \E s \in Services : AsyncCall(s)

-----------------------------------------------------------------------------
(* Strings: sequences of one-character strings *)

DigitChars == <<"0", "1", "2", "3", "4", "5", "6", "7", "8", "9">>

IsDigit(c) == \E i \in 1..10 : DigitChars[i] = c

DigitVal(c) == (CHOOSE i \in 1..10 : DigitChars[i] = c) - 1

\* The decimal digits of n >= 0, most significant first.
RECURSIVE Digits(_)
Digits(n) ==
    IF n < 10 THEN <<DigitChars[n + 1]>>
    ELSE Append(Digits(n \div 10), DigitChars[(n % 10) + 1])

\* f"{n:0<width>d}" for n >= 0: the digits, zero-padded on the left to width.
RECURSIVE ZeroPad(_, _)
ZeroPad(ds, width) ==
    IF Len(ds) >= width THEN ds ELSE ZeroPad(<<"0">> \o ds, width)

\* str.strip(): leading and trailing whitespace removed.
RECURSIVE Strip(_)
Strip(s) ==
    IF s = <<>> THEN s
    ELSE IF Head(s) = " " THEN Strip(Tail(s))
    ELSE IF s[Len(s)] = " " THEN Strip(SubSeq(s, 1, Len(s) - 1))
    ELSE s

\* A substitution that knows '/' only.
SubSlashes(s) ==
    [i \in 1..Len(s) |-> IF s[i] = "/" THEN "-" ELSE s[i]]

\* re.sub(r'[/.]', '-', s)
SubSeparators(s) ==
    [i \in 1..Len(s) |-> IF s[i] \in {"/", "."} THEN "-" ELSE s[i]]

\* s.split(sep): the parts between the occurrences of sep, empty parts kept.
RECURSIVE Split(_, _)
Split(s, sep) ==
    IF \A i \in 1..Len(s) : s[i] # sep THEN <<s>>
    ELSE LET k == CHOOSE i \in 1..Len(s) :
                      s[i] = sep /\ \A j \in 1..(i - 1) : s[j] # sep
         IN <<SubSeq(s, 1, k - 1)>> \o Split(SubSeq(s, k + 1, Len(s)), sep)

\* The value of a string of decimal digits.
RECURSIVE DigitsValue(_)
DigitsValue(ds) ==
    IF ds = <<>> THEN 0
    ELSE 10 * DigitsValue(SubSeq(ds, 1, Len(ds) - 1)) + DigitVal(ds[Len(ds)])

\* int(s): surrounding whitespace is ignored; anything but a non-empty run of
\* decimal digits is a ValueError (the split has removed every '-').
IntOk(s) == Strip(s) # <<>> /\ \A i \in 1..Len(Strip(s)) : IsDigit(Strip(s)[i])

IntOf(s) == DigitsValue(Strip(s))

\* ord(c) for the characters that occur in dates
CodePoint(c) ==
    CASE c = " " -> 32
      [] c = "-" -> 45
      [] c = "." -> 46
      [] c = "/" -> 47
      [] IsDigit(c) -> 48 + DigitVal(c)
      [] OTHER -> 120

\* Python's comparison a <= b of two strings: by code point, a proper prefix
\* first.
RECURSIVE StrLessEq(_, _)
StrLessEq(a, b) ==
    IF a = <<>> THEN TRUE
    ELSE IF b = <<>> THEN FALSE
    ELSE IF Head(a) # Head(b) THEN CodePoint(Head(a)) < CodePoint(Head(b))
    ELSE StrLessEq(Tail(a), Tail(b))

\* Python's comparison a > b of two lists of integers: lexicographic.
RECURSIVE ListGreater(_, _)
ListGreater(a, b) ==
    IF a = <<>> THEN FALSE
    ELSE IF b = <<>> THEN TRUE
    ELSE IF Head(a) # Head(b) THEN Head(a) > Head(b)
    ELSE ListGreater(Tail(a), Tail(b))

-----------------------------------------------------------------------------
(* The local (Jalali) calendar and the date validation *)

\* validate_jalali_date's bounds on the year
MinJalaliYear == 1300
MaxJalaliYear == 1450

\* jdatetime.date.isleap
JalaliLeap(year) == (year % 33) \in {1, 5, 9, 13, 17, 22, 26, 30}

\* jdatetime's j_days_in_month, with the leap day of the twelfth month
JalaliDaysInMonth(year, month) ==
    IF month <= 6 THEN 31
    ELSE IF month <= 11 THEN 30
    ELSE IF JalaliLeap(year) THEN 30 ELSE 29

\* jdatetime.date(year, month, day) raises ValueError unless this holds.
JalaliDateOk(year, month, day) ==
    /\ month \in 1..12
    /\ day >= 1
    /\ day <= JalaliDaysInMonth(year, month)

\* f'{year:04d}-{month:02d}-{day:02d}'
NormalForm(year, month, day) ==
    ZeroPad(Digits(year), 4) \o <<"-">> \o ZeroPad(Digits(month), 2)
      \o <<"-">> \o ZeroPad(Digits(day), 2)

Valid(norm) == [ok |-> TRUE, norm |-> norm, why |-> "", value |-> norm]
Invalid(why, value) == [ok |-> FALSE, norm |-> <<>>, why |-> why, value |-> value]

\* utils.validate_jalali_date(date_string): the normalized string, or the
\* TSETMCValidationError raised (why it was raised, and its field_value).
ValidateJalaliDate(date_string) ==
    IF date_string = <<>> THEN Invalid("empty", date_string)
    ELSE
      LET cleaned == SubSeparators(Strip(date_string))
          parts == Split(cleaned, "-")
      IN IF Len(parts) # 3 THEN Invalid("format", cleaned)
         ELSE IF \E i \in 1..3 : ~IntOk(parts[i]) THEN Invalid("int", cleaned)
         ELSE
           LET year == IntOf(parts[1])
               month == IntOf(parts[2])
               day == IntOf(parts[3])
           IN IF year < MinJalaliYear \/ year > MaxJalaliYear
                THEN Invalid("year", cleaned)
              ELSE IF ~JalaliDateOk(year, month, day)
                THEN Invalid("calendar", cleaned)
              ELSE Valid(NormalForm(year, month, day))

\* [int(x) for x in normalized.split('-')]
DateParts(normalized) ==
    LET parts == Split(normalized, "-")
    IN [i \in 1..Len(parts) |-> IntOf(parts[i])]

\* The comparison of _validate_date_range: start_parts > end_parts
StartAfterEnd(normalized_start, normalized_end) ==
    ListGreater(DateParts(normalized_start), DateParts(normalized_end))

\* A call that returns None.
Returned == [tag |-> "return", kind |-> "None", status |-> 0]

\* _validate_date_range with the order check made on the strings as written.
ValidateDateRangeOnRawStrings(start_date, end_date) ==
    LET s == ValidateJalaliDate(start_date)
        e == ValidateJalaliDate(end_date)
    IN IF ~s.ok THEN Raise("ValidationError", 0)
       ELSE IF ~e.ok THEN Raise("ValidationError", 0)
       ELSE IF ~StrLessEq(start_date, end_date) THEN Raise("ValidationError", 0)
       ELSE Returned

\* BaseService._validate_date_range(start_date, end_date): None, or the
\* TSETMCValidationError raised.
ValidateDateRange(start_date, end_date) ==
    LET s == ValidateJalaliDate(start_date)
        e == ValidateJalaliDate(end_date)
    IN IF ~s.ok THEN Raise("ValidationError", 0)
       ELSE IF ~e.ok THEN Raise("ValidationError", 0)
       ELSE IF StartAfterEnd(s.norm, e.norm) THEN Raise("ValidationError", 0)
       ELSE Returned

\* str.lower() of one character
LowerChar(c) ==
    LET upper == <<"A", "B", "C", "D", "E", "F", "G", "H", "I", "J", "K", "L", "M", "N", "O", "P", "Q", "R", "S", "T", "U", "V", "W", "X", "Y", "Z">>
        lower == <<"a", "b", "c", "d", "e", "f", "g", "h", "i", "j", "k", "l", "m", "n", "o", "p", "q", "r", "s", "t", "u", "v", "w", "x", "y", "z">>
    IN IF \E i \in 1..26 : upper[i] = c
         THEN lower[CHOOSE i \in 1..26 : upper[i] = c] ELSE c

\* sub in text
Contains(text, sub) ==
    \E i \in 0..(Len(text) - Len(sub)) : SubSeq(text, i + 1, i + Len(sub)) = sub

\* The texts of the errors of validate_jalali_date, f"Invalid {field_name}: ..."
\* with the default field_name; the ValueError texts are those of int() and
\* of jdatetime.date.
MsgEmpty == <<"I", "n", "v", "a", "l", "i", "d", " ", "d", "a", "t", "e", ":", " ", "d", "a", "t", "e", " ", "s", "t", "r", "i", "n", "g", " ", "c", "a", "n", "n", "o", "t", " ", "b", "e", " ", "e", "m", "p", "t", "y">>
MsgFormat == <<"I", "n", "v", "a", "l", "i", "d", " ", "d", "a", "t", "e", ":", " ", "e", "x", "p", "e", "c", "t", "e", "d", " ", "f", "o", "r", "m", "a", "t", " ", "Y", "Y", "Y", "Y", "-", "M", "M", "-", "D", "D", ",", " ", "g", "o", "t", " ">>
MsgInt == <<"I", "n", "v", "a", "l", "i", "d", " ", "d", "a", "t", "e", ":", " ", "i", "n", "v", "a", "l", "i", "d", " ", "l", "i", "t", "e", "r", "a", "l", " ", "f", "o", "r", " ", "i", "n", "t", "(", ")", " ", "w", "i", "t", "h", " ", "b", "a", "s", "e", " ", "1", "0", ":", " ">>
MsgYear == <<"I", "n", "v", "a", "l", "i", "d", " ", "d", "a", "t", "e", ":", " ", "y", "e", "a", "r", " ">>
MsgYearRange == <<" ", "i", "s", " ", "o", "u", "t", " ", "o", "f", " ", "r", "e", "a", "s", "o", "n", "a", "b", "l", "e", " ", "r", "a", "n", "g", "e">>
MsgMonth == <<"I", "n", "v", "a", "l", "i", "d", " ", "d", "a", "t", "e", ":", " ", "m", "o", "n", "t", "h", " ", "m", "u", "s", "t", " ", "b", "e", " ", "i", "n", " ", "1", ".", ".", "1", "2">>
MsgDay == <<"I", "n", "v", "a", "l", "i", "d", " ", "d", "a", "t", "e", ":", " ", "d", "a", "y", " ", "i", "s", " ", "o", "u", "t", " ", "o", "f", " ", "r", "a", "n", "g", "e", " ", "f", "o", "r", " ", "m", "o", "n", "t", "h">>
MsgField == <<" ", "(", "F", "i", "e", "l", "d", ":", " ", "d", "a", "t", "e", ",", " ", "V", "a", "l", "u", "e", ":", " ">>

\* str(e) of the TSETMCValidationError validate_jalali_date raises on
\* date_string: the message, then the field name and the field value.
ValidationErrorStr(date_string) ==
    LET v == ValidateJalaliDate(date_string)
        parts == Split(v.value, "-")
        message ==
          CASE v.why = "empty" -> MsgEmpty
            [] v.why = "format" -> MsgFormat \o v.value
            [] v.why = "int" ->
                 MsgInt \o <<"'">>
                   \o parts[CHOOSE i \in 1..3 :
                                /\ ~IntOk(parts[i])
                                /\ \A j \in 1..(i - 1) : IntOk(parts[j])]
                   \o <<"'">>
            [] v.why = "year" -> MsgYear \o Digits(IntOf(parts[1])) \o MsgYearRange
            [] OTHER -> IF IntOf(parts[2]) \notin 1..12 THEN MsgMonth ELSE MsgDay
    IN message \o MsgField \o v.value \o <<")">>

\* The message of the error _validate_date_range raises, <<>> when it
\* returns: an error of validate_jalali_date whose text holds no "start" is
\* replaced by one naming the start date when the text holds start_date as
\* written, else by one naming the end date.
DateRangeMessage(start_date, end_date) ==
    LET s == ValidateJalaliDate(start_date)
        e == ValidateJalaliDate(end_date)
        text == ValidationErrorStr(IF ~s.ok THEN start_date ELSE end_date)
    IN IF ~s.ok \/ ~e.ok
         THEN IF Contains([i \in 1..Len(text) |-> LowerChar(text[i])],
                          <<"s", "t", "a", "r", "t">>)
                THEN text
              ELSE IF Contains(text, start_date)
                THEN <<"I", "n", "v", "a", "l", "i", "d", " ", "s", "t", "a", "r", "t", " ", "d", "a", "t", "e", " ", "f", "o", "r", "m", "a", "t", ":", " ">> \o start_date
              ELSE <<"I", "n", "v", "a", "l", "i", "d", " ", "e", "n", "d", " ", "d", "a", "t", "e", " ", "f", "o", "r", "m", "a", "t", ":", " ">> \o end_date
       ELSE IF StartAfterEnd(s.norm, e.norm)
         THEN <<"S", "t", "a", "r", "t", " ", "d", "a", "t", "e", " ", "m", "u", "s", "t", " ", "b", "e", " ", "b", "e", "f", "o", "r", "e", " ", "e", "n", "d", " ", "d", "a", "t", "e">>
       ELSE <<>>

\* What a caller may write as a date: year, month and day written with a
\* separator, zero-padded or not, or some other text.
Written(year, month, day, sep, pad) ==
    [kind |-> "date", year |-> year, month |-> month, day |-> day,
     sep |-> sep, pad |-> pad, text |-> <<>>]

Text(chars) ==
    [kind |-> "text", year |-> 0, month |-> 0, day |-> 0,
     sep |-> "", pad |-> FALSE, text |-> chars]

\* The string the caller passes.
Raw(d) ==
    IF d.kind = "text" THEN d.text
    ELSE (IF d.pad THEN ZeroPad(Digits(d.year), 4) ELSE Digits(d.year))
           \o <<d.sep>>
           \o (IF d.pad THEN ZeroPad(Digits(d.month), 2) ELSE Digits(d.month))
           \o <<d.sep>>
           \o (IF d.pad THEN ZeroPad(Digits(d.day), 2) ELSE Digits(d.day))

DateInputs ==
    { Written(y, m, d, sep, pad) :
          y \in {1402, 1403}, m \in {1, 12}, d \in {1, 30},
          sep \in {"-", "/", "."}, pad \in BOOLEAN }
      \cup { Text(<<>>),
              Text(<<"1", "4", "0", "3", "-", "0", "1">>),
              Text(<<"1", "4", "x", "3", "-", "0", "1", "-", "0", "1">>),
              Text(<<" ", "1", "4", "0", "3", "/", "0", "1", "-", "0", "2", " ">>),
              Text(<<"1", "4", "0", "3", "-", "1", "3", "-", "0", "1">>),
              Text(<<"1", "4", "5", "1", "-", "0", "1", "-", "0", "1">>),
              Text(<<"1", "4", "0", "3", "-", "0", "1", "-", "0", "1", "-", "5">>) }

DFrame == UNCHANGED <<tvars, gvars, ovars, thvars, obvars, calvars, ppvars, ixvars, flvars, sevars, slvars>>

DQuiet ==
    /\ start_in = Text(<<>>)
    /\ end_in = Text(<<>>)
    /\ range_result = None
    /\ range_message = <<>>

DInit ==
    /\ start_in \in DateInputs
    /\ end_in \in DateInputs
    /\ range_result = None
    /\ range_message = <<>>

\* self._validate_date_range(start_date, end_date)
CheckDateRange ==
    /\ range_result = None
    /\ range_result' = ValidateDateRange(Raw(start_in), Raw(end_in))
    /\ range_message' = DateRangeMessage(Raw(start_in), Raw(end_in))
    /\ UNCHANGED <<start_in, end_in>>
    /\ DFrame

DNext == CheckDateRange

-----------------------------------------------------------------------------
(* The public fetch operations: validation, then the network *)

\* An argument that is not a string: None, or a number.
NonString(what) ==
    [kind |-> "nonstring", year |-> 0, month |-> 0, day |-> 0,
     sep |-> "", pad |-> FALSE, text |-> <<what>>]

StockOperations ==
    {"get_history", "get_ri_history",
     "get_intraday_trades_history", "get_intraday_ob_history"}

\* The operations that take ignore_date
DateOptionalOperations ==
    {"get_history", "get_ri_history", "get_usd_rial_history", "get_index_history"}

\* get_market_watch takes no argument
Operations == StockOperations \cup DateOptionalOperations \cup {"get_market_watch"}

\* The errors of the package, the subclasses of TSETMCError
TSETMCErrors ==
    {"ValidationError", "NetworkError", "RateLimitError", "DataError",
     "NotFoundError", "ApiError"}

\* The stock name or index type passed: one the service knows, "", or a
\* value that is not a string.
Targets == {"known", "empty", "nonstring"}

\* The dates the operations are called with, None among them.
OperationDates ==
    { Written(y, m, d, sep, TRUE) :
          y \in {1402, 1403}, m \in {12}, d \in {1, 30}, sep \in {"-", "/"} }
      \cup { Text(<<"1", "4", "0", "3", "-", "0", "1">>), NonString("None") }

NoCall ==
    [name |-> "", target |-> "", start_date |-> Text(<<>>),
     end_date |-> Text(<<>>), ignore_date |-> FALSE]

\* _validate_stock_name, or IndexType(index_type.upper()) under `except
\* ValueError`: the first statement of an operation that takes a target.
ValidateTarget(call) ==
    IF call.name \in StockOperations /\ call.target # "known"
      THEN Raise("ValidationError", 0)
    ELSE IF call.name = "get_index_history" /\ call.target = "nonstring"
      THEN Raise("AttributeError", 0)
    ELSE IF call.name = "get_index_history" /\ call.target = "empty"
      THEN Raise("ValidationError", 0)
    ELSE Returned

\* _validate_date_range for any two arguments: the handler of the error of
\* a start date that is not a string evaluates `start_date in str(e)`.
ValidateRangeArguments(start_date, end_date) ==
    IF start_date.kind = "nonstring" THEN Raise("TypeError", 0)
    ELSE IF end_date.kind = "nonstring" THEN Raise("ValidationError", 0)
    ELSE ValidateDateRange(Raw(start_date), Raw(end_date))

\* The validation of an operation that leaves the date range to the upstream.
ValidateCallWithoutDates(call) == ValidateTarget(call)

\* The statements of an operation before its try block: _validate_stock_name
\* or IndexType(...), then _validate_date_range unless ignore_date.
ValidateCall(call) ==
    IF ValidateTarget(call).tag = "raise" THEN ValidateTarget(call)
    ELSE IF call.name = "get_market_watch" THEN Returned
    ELSE IF call.name \in DateOptionalOperations /\ call.ignore_date
      THEN Returned
    ELSE ValidateRangeArguments(call.start_date, call.end_date)

\* The network steps of an operation's try block, in program order: a
\* "search" is one StockService.search, a "fetch" one _make_request whose
\* error ends the operation, "days" the per-day fetches and "sectors" the
\* request of _map_sector_names, whose errors are caught.
OperationSteps(name) ==
    CASE name \in {"get_history", "get_ri_history"} -> <<"search", "search", "fetch">>
      [] name = "get_usd_rial_history" -> <<"fetch">>
      [] name = "get_index_history" -> <<"fetch", "fetch">>
      [] name = "get_market_watch" -> <<"fetch", "fetch", "sectors">>
      [] OTHER -> <<"search", "fetch", "days">>

\* What _make_request raises when it fails
RequestErrors == {"NetworkError", "ApiError", "RateLimitError"}

\* What the parsing and formatting of a response raise when they fail
ParseErrors == {"ValueError", "KeyError", "IndexError"}

\* A handler that lets every exception through
Reraised(exception) == Raise(exception, 0)

\* `except Exception as e: if isinstance(e, TSETMCError): raise` and
\* `raise TSETMCAPIError(...)`: what leaves the try block of an operation
\* in which exception was raised.
Surfaced(exception) ==
    IF exception \in TSETMCErrors THEN Raise(exception, 0) ELSE Raise("ApiError", 0)

OFrame == UNCHANGED <<tvars, gvars, dvars, thvars, obvars, calvars, ppvars, ixvars, flvars, sevars, slvars>>

OQuiet ==
    /\ op_call = NoCall
    /\ op_pc = "idle"
    /\ op_step = 1
    /\ op_raised = ""
    /\ op_outcome = None
    /\ net_calls = 0

OInit == OQuiet

\* The caller invokes the operation: its validation runs, and raises or lets
\* the try block start.
CallOperation(call) ==
    /\ op_pc = "idle"
    /\ op_call' = call
    /\ op_step' = 1
    /\ op_raised' = ""
    /\ net_calls' = 0
    /\ IF ValidateCall(call).tag = "raise"
         THEN op_pc' = "done" /\ op_outcome' = ValidateCall(call)
         ELSE op_pc' = "running" /\ op_outcome' = None
    /\ OFrame

NextStep ==
    IF op_pc = "running" /\ op_step <= Len(OperationSteps(op_call.name))
      THEN OperationSteps(op_call.name)[op_step]
      ELSE "none"

\* StockService.search: the new endpoint, and the old one when the new one
\* brought nothing; errors are swallowed and a result is always produced.
Search(requests) ==
    /\ NextStep = "search"
    /\ net_calls' = net_calls + requests
    /\ op_step' = op_step + 1
    /\ UNCHANGED <<op_call, op_pc, op_raised, op_outcome>>
    /\ OFrame

\* One _make_request of the operation's body succeeds.
Fetch ==
    /\ NextStep = "fetch"
    /\ net_calls' = net_calls + 1
    /\ op_step' = op_step + 1
    /\ UNCHANGED <<op_call, op_pc, op_raised, op_outcome>>
    /\ OFrame

\* One _make_request of the operation's body raises: the operation re-raises.
FetchFails(error) ==
    /\ NextStep = "fetch"
    /\ net_calls' = net_calls + 1
    /\ op_pc' = "done"
    /\ op_raised' = error
    /\ op_outcome' = Surfaced(error)
    /\ UNCHANGED <<op_call, op_step>>
    /\ OFrame

\* The response of the last request cannot be read: the parsing or the
\* formatting raises inside the try block.
ParseFails(error) ==
    /\ op_pc = "running"
    /\ op_step > 1
    /\ OperationSteps(op_call.name)[op_step - 1] = "fetch"
    /\ op_pc' = "done"
    /\ op_raised' = error
    /\ op_outcome' = Surfaced(error)
    /\ UNCHANGED <<op_call, op_step, net_calls>>
    /\ OFrame

\* _map_sector_names of get_market_watch: one request, its failure caught.
MapSectorNames ==
    /\ NextStep = "sectors"
    /\ net_calls' = net_calls + 1
    /\ op_step' = op_step + 1
    /\ UNCHANGED <<op_call, op_pc, op_raised, op_outcome>>
    /\ OFrame

\* The per-day fetches of the intraday operations.
FetchDays(requests) ==
    /\ NextStep = "days"
    /\ net_calls' = net_calls + requests
    /\ op_step' = op_step + 1
    /\ UNCHANGED <<op_call, op_pc, op_raised, op_outcome>>
    /\ OFrame

\* The end of the try block: the table is returned, or DataError when empty.
Complete(empty) ==
    /\ op_pc = "running"
    /\ op_step > Len(OperationSteps(op_call.name))
    /\ op_pc' = "done"
    /\ empty => op_call.name # "get_market_watch"
    /\ op_raised' = IF empty THEN "DataError" ELSE ""
    /\ op_outcome' = IF empty THEN Surfaced("DataError") ELSE Returned
    /\ UNCHANGED <<op_call, op_step, net_calls>>
    /\ OFrame

Calls ==
    [name : Operations \ {"get_market_watch"}, target : Targets,
     start_date : OperationDates, end_date : OperationDates, ignore_date : BOOLEAN]
      \cup { [NoCall EXCEPT !.name = "get_market_watch"] }

ONext ==
    \/ \E call \in Calls : CallOperation(call)
    \/ \E requests \in 1..2 : Search(requests)
    \/ Fetch
    \/ \E error \in RequestErrors : FetchFails(error)
    \/ \E error \in ParseErrors : ParseFails(error)
    \/ MapSectorNames
    \/ \E requests \in 1..2 : FetchDays(requests)
    \/ \E empty \in BOOLEAN : Complete(empty)

-----------------------------------------------------------------------------
(* Gregorian dates of the upstream feed, and their Jalali form *)

GDaysInMonth == <<31, 28, 31, 30, 31, 30, 31, 31, 30, 31, 30, 31>>

RECURSIVE SumFirst(_, _)
SumFirst(seq, n) == IF n = 0 THEN 0 ELSE seq[n] + SumFirst(seq, n - 1)

\* The month and day of the Jalali year that day number day_no (from 0)
\* falls in, trying month i onwards.
RECURSIVE JalaliMonthDay(_, _)
JalaliMonthDay(day_no, i) ==
    LET len == IF i <= 6 THEN 31 ELSE 30
    IN IF i <= 11 /\ day_no >= len THEN JalaliMonthDay(day_no - len, i + 1)
       ELSE [month |-> i, day |-> day_no + 1]

\* jdatetime.date.fromgregorian(date=...): the Jalali year, month and day.
FromGregorian(gyear, gmonth, gday) ==
    LET gy == gyear - 1600
        leap == (gy % 4 = 0 /\ gy % 100 # 0) \/ gy % 400 = 0
        g_day_no == 365 * gy + ((gy + 3) \div 4) - ((gy + 99) \div 100)
                      + ((gy + 399) \div 400)
                      + SumFirst(GDaysInMonth, gmonth - 1)
                      + (IF gmonth > 2 /\ leap THEN 1 ELSE 0)
                      + (gday - 1)
        j_day_no == g_day_no - 79
        j_np == j_day_no \div 12053
        in_cycle == j_day_no % 12053
        in_four == in_cycle % 1461
        jy == 979 + 33 * j_np + 4 * (in_cycle \div 1461)
                + (IF in_four >= 366 THEN (in_four - 1) \div 365 ELSE 0)
        in_year == IF in_four >= 366 THEN (in_four - 1) % 365 ELSE in_four
        md == JalaliMonthDay(in_year, 1)
    IN [year |-> jy, month |-> md.month, day |-> md.day]

\* str(jdatetime.date): "YYYY-MM-DD"
JalaliString(g) ==
    LET j == FromGregorian(g.year, g.month, g.day)
    IN NormalForm(j.year, j.month, j.day)

-----------------------------------------------------------------------------
(* get_intraday_trades_history *)

\* "Limit to 5 days for demo"
DayCap == 5

\* How many items of the trading-day response are read.
MaxFeedRows == 3

Min(a, b) == IF a <= b THEN a ELSE b

RECURSIVE Concat(_)
Concat(frames) ==
    IF frames = <<>> THEN <<>> ELSE Head(frames) \o Concat(Tail(frames))

\* An item of response.text.split(';'): a row that starts with a date of 8
\* digits, a row that starts with something else, or the empty string.
DayRow(y, m, d) == [kind |-> "row", year |-> y, month |-> m, day |-> d]
MalformedRow == [kind |-> "malformed", year |-> 0, month |-> 0, day |-> 0]
EmptyItem == [kind |-> "empty", year |-> 0, month |-> 0, day |-> 0]

\* 2024-03-19, 20, 21 and 23: 1402-12-29, 1403-01-01, 1403-01-02, 1403-01-04
FeedItems ==
    { DayRow(2024, 3, d) : d \in {19, 20, 21, 23} } \cup {MalformedRow, EmptyItem}

\* The ranges asked for: 1403-01-01 to 1403-01-04, written with '-' or '/'.
TradeRanges ==
    { [start_date |-> Raw(Written(1403, 1, 1, sep, TRUE)),
       end_date |-> Raw(Written(1403, 1, 4, sep, TRUE))] : sep \in {"-", "/"} }

\* The test of _get_trading_days on one day: start_date <= jalali_date <= end_date
InRange(range, jalali_date) ==
    StrLessEq(range.start_date, jalali_date) /\ StrLessEq(jalali_date, range.end_date)

\* The keys of an element of tradeHistory, in the order of the JSON object.
\* The code takes the columns by position, so the order matters: the first
\* layout has the sequence number third, the second has it sixth.
SequenceThird == <<"insCode", "dEven", "nTran", "hEven", "qTitTran", "pTran">>
SequenceSixth == <<"insCode", "dEven", "hEven", "qTitTran", "pTran", "nTran">>

\* An element of tradeHistory: the trade's number in the day, time of day,
\* volume and price under their keys, in the order of the layout.
Trade(layout, n, t, p) ==
    [i \in 1..Len(layout) |->
        [key |-> layout[i],
         val |-> CASE layout[i] = "nTran" -> n
                   [] layout[i] = "hEven" -> t
                   [] layout[i] = "qTitTran" -> 100 * n
                   [] layout[i] = "pTran" -> p
                   [] OTHER -> 0]]

\* What one day's GetTradeHistory request meets: a payload (no trades, or two
\* trades listed latest first, the later at the lower price, in either
\* layout), or the error _make_request gives up with.
DayUpstream ==
    { [res |-> "response", trades |-> ts] :
          ts \in { <<>> } \cup
                 { <<Trade(layout, 2, 90105, 5001), Trade(layout, 1, 90001, 5002)>> :
                       layout \in {SequenceThird, SequenceSixth} } }
      \cup { [res |-> e, trades |-> <<>>] : e \in RequestErrors }

\* df.iloc[:, 2:6] with df.columns = ['Time', 'Volume', 'Price', 'nTran']
Columns(row) ==
    [Time |-> row[3].val, Volume |-> row[4].val, Price |-> row[5].val,
     nTran |-> row[6].val]

\* df.sort_values(by='nTran')
RECURSIVE SortByNTran(_)
SortByNTran(ts) ==
    IF ts = <<>> THEN <<>>
    ELSE LET k == CHOOSE i \in 1..Len(ts) :
                      \A j \in 1..Len(ts) : ts[i].nTran <= ts[j].nTran
         IN <<ts[k]>> \o SortByNTran([i \in 1..(Len(ts) - 1) |->
                                          IF i < k THEN ts[i] ELSE ts[i + 1]])

\* str(hEven) padded to six digits and written HH:MM:SS
FormatTime(h) ==
    LET x == ZeroPad(Digits(h), 6)
    IN SubSeq(x, 1, 2) \o <<":">> \o SubSeq(x, 3, 4) \o <<":">> \o SubSeq(x, 5, Len(x))

TradeRecord(j_date, t) ==
    [J_Date |-> j_date, Time |-> FormatTime(t.Time),
     Volume |-> t.Volume, Price |-> t.Price]

\* A per-day fetch that reports a failed day as a row without data.
FetchDayTradesWithPlaceholder(j_date, up) ==
    IF up.res # "response"
      THEN <<[J_Date |-> j_date, Time |-> <<>>, Volume |-> 0, Price |-> 0]>>
    ELSE IF up.trades = <<>> THEN <<>>
    ELSE LET sorted == SortByNTran([i \in 1..Len(up.trades) |-> Columns(up.trades[i])])
         IN [i \in 1..Len(sorted) |-> TradeRecord(j_date, sorted[i])]

\* _fetch_day_trades_sync(web_id, j_date): the day's frame; any exception is
\* caught and gives the empty frame.
FetchDayTradesSync(j_date, up) ==
    IF up.res # "response" THEN <<>>
    ELSE IF up.trades = <<>> THEN <<>>
    ELSE LET sorted == SortByNTran([i \in 1..Len(up.trades) |-> Columns(up.trades[i])])
         IN [i \in 1..Len(sorted) |-> TradeRecord(j_date, sorted[i])]

\* _clean_dataframe: rows that are empty in every column are dropped.
CleanDataframe(df) == SelectSeq(df, LAMBDA r : r.J_Date # <<>>)

Table(df) == [tag |-> "return", kind |-> "DataFrame", status |-> 0, df |-> df]

\* An assembly that hands the table over whatever it holds.
AssembledOrEmpty(df) == Table(CleanDataframe(df))

\* The end of both history operations: `if df.empty: raise TSETMCDataError`,
\* else `return self._clean_dataframe(df)`.
Assembled(df) ==
    IF df = <<>> THEN Raise("DataError", 0) ELSE Table(CleanDataframe(df))

ThFrame == UNCHANGED <<tvars, gvars, dvars, ovars, obvars, calvars, ppvars, ixvars, flvars, sevars, slvars>>

ThQuiet ==
    /\ th_pc = "idle"
    /\ th_range = [start_date |-> <<>>, end_date |-> <<>>]
    /\ feed = <<>>
    /\ trading_days = <<>>
    /\ day_fetch = <<>>
    /\ results = <<>>
    /\ th_outcome = None

ThInit == ThQuiet

\* The operation is called with a valid range and has resolved the stock; it
\* enters _get_trading_days.
GetIntradayTradesHistory(range) ==
    /\ th_pc = "idle"
    /\ th_pc' = "request"
    /\ th_range' = range
    /\ UNCHANGED <<feed, trading_days, day_fetch, results, th_outcome>>
    /\ ThFrame

\* The trading-day request returns a response.
TradingDaysResponse ==
    /\ th_pc = "request"
    /\ th_pc' = "parsing"
    /\ UNCHANGED <<th_range, feed, trading_days, day_fetch, results, th_outcome>>
    /\ ThFrame

\* The trading-day request raises; the operation re-raises the typed error.
TradingDaysRequestFails(error) ==
    /\ th_pc = "request"
    /\ th_pc' = "done"
    /\ th_outcome' = Raise(error, 0)
    /\ UNCHANGED <<th_range, feed, trading_days, day_fetch, results>>
    /\ ThFrame

\* One turn of the loop of _get_trading_days over the items of the response.
\* strptime raises ValueError on a malformed row, which nothing catches
\* before the operation's handler, which raises ApiError.
ReadItem(item, rows) ==
    /\ th_pc = "parsing"
    /\ Len(feed) < rows
    /\ feed' = Append(feed, item)
    /\ CASE item.kind = "empty" ->
               UNCHANGED <<th_pc, trading_days, th_outcome>>
         [] item.kind = "malformed" ->
               /\ th_pc' = "done"
               /\ th_outcome' = Raise("ApiError", 0)
               /\ UNCHANGED trading_days
         [] OTHER ->
               /\ trading_days' =
                      IF InRange(th_range, JalaliString(item))
                        THEN Append(trading_days, JalaliString(item))
                        ELSE trading_days
               /\ UNCHANGED <<th_pc, th_outcome>>
    /\ UNCHANGED <<th_range, day_fetch, results>>
    /\ ThFrame

ParseItem(item) == ReadItem(item, MaxFeedRows)

\* The response has no more items: _get_trading_days returns.
EndOfItems ==
    /\ th_pc = "parsing"
    /\ IF trading_days = <<>>
         THEN th_pc' = "done" /\ th_outcome' = Raise("DataError", 0)
         ELSE th_pc' = "fetching" /\ UNCHANGED th_outcome
    /\ UNCHANGED <<th_range, feed, trading_days, day_fetch, results>>
    /\ ThFrame

\* One turn of the loop over trading_days[:max_days].
FetchDay(up) ==
    /\ th_pc = "fetching"
    /\ Len(day_fetch) < Min(Len(trading_days), DayCap)
    /\ LET day == trading_days[Len(day_fetch) + 1]
           result == FetchDayTradesSync(day, up)
       IN results' = IF result # <<>> THEN Append(results, result) ELSE results
    /\ day_fetch' = Append(day_fetch, up)
    /\ UNCHANGED <<th_pc, th_range, feed, trading_days, th_outcome>>
    /\ ThFrame

\* After the loop: the frames are concatenated and cleaned.
AssembleTrades ==
    /\ th_pc = "fetching"
    /\ Len(day_fetch) = Min(Len(trading_days), DayCap)
    /\ th_pc' = "done"
    /\ th_outcome' = Assembled(Concat(results))
    /\ UNCHANGED <<th_range, feed, trading_days, day_fetch, results>>
    /\ ThFrame

\* How many days the feed of a long range lists: one more than the cap.
MaxListedDays == 6

\* A feed of a long range: 2024-03-20 to 2024-03-25, 1403-01-01 to 1403-01-06.
LongFeedItems == { DayRow(2024, 3, d) : d \in 20..25 }

LongRange ==
    [start_date |-> NormalForm(1403, 1, 1), end_date |-> NormalForm(1403, 1, 9)]

\* What a day's request meets in a long range: one trade, or an error.
LongRangeUpstream ==
    { [res |-> "response", trades |-> <<Trade(SequenceSixth, 1, 90001, 5001)>>],
      [res |-> "NetworkError", trades |-> <<>>] }

\* The operation over a long range, whose feed lists every day once, in any
\* order.
LongRangeNext ==
    \/ GetIntradayTradesHistory(LongRange)
    \/ TradingDaysResponse
    \/ \E item \in LongFeedItems :
          /\ \A i \in 1..Len(feed) : feed[i] # item
          /\ ReadItem(item, MaxListedDays)
    \/ EndOfItems
    \/ \E up \in LongRangeUpstream : FetchDay(up)
    \/ AssembleTrades

ThNext ==
    \/ \E range \in TradeRanges : GetIntradayTradesHistory(range)
    \/ TradingDaysResponse
    \/ \E error \in RequestErrors : TradingDaysRequestFails(error)
    \/ \E item \in FeedItems : ParseItem(item)
    \/ EndOfItems
    \/ \E up \in DayUpstream : FetchDay(up)
    \/ AssembleTrades

-----------------------------------------------------------------------------
(* get_intraday_ob_history: one task per trading day, gathered *)

\* How many trading days the order-book operation is given.
MaxObDays == 3

\* The first n days of 1403, as _get_trading_days returns them when the feed
\* lists them oldest first or latest first; no day when none is in the range.
ObDayLists ==
    { [i \in 1..n |-> NormalForm(1403, 1, i)] : n \in 0..MaxObDays }
      \cup { [i \in 1..n |-> NormalForm(1403, 1, n + 1 - i)] : n \in 1..MaxObDays }

\* A row of bestLimitsHistory: its time and its depth in the book.
Limit(h, n) == [hEven |-> h, number |-> n]

\* What the GetStaticThreshold request of a day meets.
ThresholdUpstream ==
    { [res |-> "response", day_ul |-> 5250, day_ll |-> 4750],
      [res |-> "NetworkError", day_ul |-> 0, day_ll |-> 0] }

\* What the BestLimits request of a day meets: rows (one of them before the
\* trading session), no rows, or an error.
BookUpstream ==
    { [res |-> "response", rows |-> rs] :
          rs \in { <<>>, <<Limit(90105, 1), Limit(83000, 1), Limit(90001, 1)>> } }
      \cup { [res |-> "NetworkError", rows |-> <<>>] }

\* df[(df['hEven'] >= 84500) & (df['hEven'] < 123000)]
InSession(rows) == SelectSeq(rows, LAMBDA r : r.hEven >= 84500 /\ r.hEven < 123000)

\* df.sort_values(['hEven', 'number'])
RECURSIVE SortByTimeDepth(_)
SortByTimeDepth(rows) ==
    IF rows = <<>> THEN <<>>
    ELSE LET k == CHOOSE i \in 1..Len(rows) : \A j \in 1..Len(rows) :
                      \/ rows[i].hEven < rows[j].hEven
                      \/ rows[i].hEven = rows[j].hEven
                           /\ rows[i].number <= rows[j].number
         IN <<rows[k]>> \o SortByTimeDepth([i \in 1..(Len(rows) - 1) |->
                                              IF i < k THEN rows[i] ELSE rows[i + 1]])

\* The frame _fetch_day_ob returns once both requests have answered.
DayObFrame(j_date, limits, rows) ==
    LET sorted == SortByTimeDepth(InSession(rows))
    IN [i \in 1..Len(sorted) |->
          [J_Date |-> j_date, Time |-> FormatTime(sorted[i].hEven),
           Depth |-> sorted[i].number,
           Day_LL |-> limits.day_ll, Day_UL |-> limits.day_ul]]

\* A gather that hands the results over as the tasks finish.
GatherAsCompleted(frames, finished) ==
    [k \in 1..Len(finished) |-> frames[finished[k]]]

\* What `await asyncio.gather(*tasks)` returns: the results in the order of
\* the tasks, not in the order they finished.
Gather(frames, finished) == frames

NoLimits == [day_ul |-> 0, day_ll |-> 0]

ObFrame == UNCHANGED <<tvars, gvars, dvars, ovars, thvars, calvars, ppvars, ixvars, flvars, sevars, slvars>>

ObQuiet ==
    /\ ob_pc = "idle"
    /\ ob_days = <<>>
    /\ task_pc = <<>>
    /\ task_limits = <<>>
    /\ task_frame = <<>>
    /\ completion = <<>>
    /\ ob_outcome = None

ObInit == ObQuiet

InFlight == Cardinality({i \in 1..Len(task_pc) : task_pc[i] \in {"threshold", "book"}})

\* The operation has its trading days: with none it raises DataError, else
\* it creates one coroutine per day and hands them all to gather.
GetIntradayObHistory(days) ==
    /\ ob_pc = "idle"
    /\ ob_days' = days
    /\ IF days = <<>>
         THEN ob_pc' = "done" /\ ob_outcome' = Raise("DataError", 0)
         ELSE ob_pc' = "gathering" /\ UNCHANGED ob_outcome
    /\ task_pc' = [i \in 1..Len(days) |-> "created"]
    /\ task_limits' = [i \in 1..Len(days) |-> NoLimits]
    /\ task_frame' = [i \in 1..Len(days) |-> <<>>]
    /\ UNCHANGED completion
    /\ ObFrame

\* The event loop runs the next new task up to its first request; the tasks
\* start in the order gather scheduled them.
StartTask(i) ==
    /\ ob_pc = "gathering"
    /\ i \in 1..Len(task_pc)
    /\ task_pc[i] = "created"
    /\ \A j \in 1..(i - 1) : task_pc[j] # "created"
    /\ task_pc' = [task_pc EXCEPT ![i] = "threshold"]
    /\ UNCHANGED <<ob_pc, ob_days, task_limits, task_frame, completion, ob_outcome>>
    /\ ObFrame

\* Responses are handled once the loop has run every scheduled task.
AllStarted == \A j \in 1..Len(task_pc) : task_pc[j] # "created"

\* The threshold request of task i answers: the task sends its second
\* request, or catches the error and returns an empty frame.
ThresholdAnswers(i, up) ==
    /\ ob_pc = "gathering"
    /\ i \in 1..Len(task_pc)
    /\ AllStarted
    /\ task_pc[i] = "threshold"
    /\ IF up.res = "response"
         THEN /\ task_pc' = [task_pc EXCEPT ![i] = "book"]
              /\ task_limits' = [task_limits EXCEPT
                                    ![i] = [day_ul |-> up.day_ul, day_ll |-> up.day_ll]]
              /\ UNCHANGED completion
         ELSE /\ task_pc' = [task_pc EXCEPT ![i] = "done"]
              /\ completion' = Append(completion, i)
              /\ UNCHANGED task_limits
    /\ UNCHANGED <<ob_pc, ob_days, task_frame, ob_outcome>>
    /\ ObFrame

\* The order-book request of task i answers: the task returns its frame, or
\* catches the error and returns an empty frame.
BookAnswers(i, up) ==
    /\ ob_pc = "gathering"
    /\ i \in 1..Len(task_pc)
    /\ task_pc[i] = "book"
    /\ task_pc' = [task_pc EXCEPT ![i] = "done"]
    /\ task_frame' = [task_frame EXCEPT ![i] =
                         IF up.res = "response"
                           THEN DayObFrame(ob_days[i], task_limits[i], up.rows)
                           ELSE <<>>]
    /\ completion' = Append(completion, i)
    /\ UNCHANGED <<ob_pc, ob_days, task_limits, ob_outcome>>
    /\ ObFrame

\* Every task has finished: gather returns, the frames are concatenated.
AssembleOb ==
    /\ ob_pc = "gathering"
    /\ \A i \in 1..Len(task_pc) : task_pc[i] = "done"
    /\ ob_pc' = "done"
    /\ ob_outcome' = Assembled(Concat(Gather(task_frame, completion)))
    /\ UNCHANGED <<ob_days, task_pc, task_limits, task_frame, completion>>
    /\ ObFrame

ObNext ==
    \/ \E days \in ObDayLists : GetIntradayObHistory(days)
    \/ \E i \in 1..MaxObDays : StartTask(i)
    \/ \E i \in 1..MaxObDays : \E up \in ThresholdUpstream : ThresholdAnswers(i, up)
    \/ \E i \in 1..MaxObDays : \E up \in BookUpstream : BookAnswers(i, up)
    \/ AssembleOb

-----------------------------------------------------------------------------
(* The calendar functions of utils *)

\* The exception raised inside the try block of validate_jalali_date: int()
\* and jdatetime.date raise ValueError, the year check raises the typed error.
RaisedInTry(why) == IF why \in {"int", "calendar"} THEN "ValueError" ELSE "ValidationError"

\* A handler that lets ValueError through.
HandlerCatchesNothing(exception) == FALSE

\* `except ValueError as e`
HandlerCatches(exception) == exception = "ValueError"

\* The type of the exception that leaves validate_jalali_date.
ExceptionLeaving(why) ==
    IF why \in {"empty", "format"} THEN "ValidationError"
    ELSE IF HandlerCatches(RaisedInTry(why)) THEN "ValidationError"
    ELSE RaisedInTry(why)

\* validate_jalali_date(arg) for any argument: a non-string is rejected by
\* the first test; [ok, norm] on return, [ok, raised] otherwise.
ValidateArgument(arg) ==
    LET v == IF arg.kind = "nonstring" THEN Invalid("empty", <<>>)
             ELSE ValidateJalaliDate(Raw(arg))
    IN [ok |-> v.ok, norm |-> v.norm,
        raised |-> IF v.ok THEN "" ELSE ExceptionLeaving(v.why)]

JDaysInMonth == <<31, 31, 31, 31, 31, 31, 30, 30, 30, 30, 30, 29>>

\* The month and day that day number day_no (from 0) of a Gregorian year
\* falls in, trying month i onwards.
RECURSIVE GregorianMonthDay(_, _, _)
GregorianMonthDay(day_no, i, leap) ==
    LET len == GDaysInMonth[i] + (IF i = 2 /\ leap THEN 1 ELSE 0)
    IN IF day_no >= len THEN GregorianMonthDay(day_no - len, i + 1, leap)
       ELSE [month |-> i, day |-> day_no + 1]

\* A conversion that counts every fourth year of the cycle from its start.
ToGregorianMiscounted(jyear, jmonth, jday) ==
    LET jy == jyear - 979
        j_day_no == 365 * jy + (jy \div 33) * 8 + ((jy % 33) \div 4)
                      + SumFirst(JDaysInMonth, jmonth - 1) + (jday - 1)
        g0 == j_day_no + 79
        g4 == (g0 % 146097) % 1461
        gy == 1600 + 400 * (g0 \div 146097) + 4 * ((g0 % 146097) \div 1461)
                + (IF g4 >= 366 THEN (g4 - 1) \div 365 ELSE 0)
        g5 == IF g4 >= 366 THEN (g4 - 1) % 365 ELSE g4
        md == GregorianMonthDay(g5, 1, g4 < 366)
    IN [year |-> gy, month |-> md.month, day |-> md.day]

\* jdatetime.date(jyear, jmonth, jday).togregorian()
ToGregorian(jyear, jmonth, jday) ==
    LET jy == jyear - 979
        j_day_no == 365 * jy + (jy \div 33) * 8 + (((jy % 33) + 3) \div 4)
                      + SumFirst(JDaysInMonth, jmonth - 1) + (jday - 1)
        g0 == j_day_no + 79
        gy0 == 1600 + 400 * (g0 \div 146097)
        g1 == g0 % 146097
        late == g1 >= 36525
        g2 == IF late THEN (g1 - 1) % 36524 ELSE g1
        gy1 == IF late THEN gy0 + 100 * ((g1 - 1) \div 36524) ELSE gy0
        leap1 == ~late \/ g2 >= 365
        g3 == IF late /\ g2 >= 365 THEN g2 + 1 ELSE g2
        gy2 == gy1 + 4 * (g3 \div 1461)
        g4 == g3 % 1461
        leap == leap1 /\ g4 < 366
        gy == IF g4 >= 366 THEN gy2 + ((g4 - 1) \div 365) ELSE gy2
        g5 == IF g4 >= 366 THEN (g4 - 1) % 365 ELSE g4
        md == GregorianMonthDay(g5, 1, leap)
    IN [year |-> gy, month |-> md.month, day |-> md.day]

GDate(g) == [tag |-> "return", kind |-> "date", year |-> g.year,
             month |-> g.month, day |-> g.day]

RaisedFrom(kind) == [tag |-> "raise", kind |-> kind, year |-> 0, month |-> 0, day |-> 0]

\* convert_jalali_to_gregorian(arg): the Gregorian date, or the exception.
ConvertJalaliToGregorian(arg) ==
    LET v == ValidateArgument(arg)
    IN IF ~v.ok THEN RaisedFrom(v.raised)
       ELSE LET parts == DateParts(v.norm)
            IN GDate(ToGregorian(parts[1], parts[2], parts[3]))

\* convert_gregorian_to_jalali(gregorian_date)
ConvertGregorianToJalali(g) == JalaliString(g)

\* How the years of the arguments are chosen: the bounds of the accepted
\* range, the years around a leap year, and one year on either side.
CalendarYears == {1299, 1300, 1402, 1403, 1404, 1450, 1451}

CalendarInputs ==
    { Written(y, m, d, sep, pad) :
          y \in CalendarYears, m \in {0, 1, 6, 7, 11, 12, 13},
          d \in {0, 1, 29, 30, 31, 32}, sep \in {"-", "/", "."}, pad \in BOOLEAN }
      \cup { Text(<<>>),
             Text(<<" ">>),
             Text(<<"1", "4", "0", "3", "-", "0", "1">>),
             Text(<<"1", "4", "0", "3", "-", "0", "1", "-", "0", "1", "-", "0", "1">>),
             Text(<<"1", "4", "0", "3", "0", "1", "0", "1">>),
             Text(<<"1", "4", "x", "3", "-", "0", "1", "-", "0", "1">>),
             Text(<<"1", "4", "0", "3", "-", "-", "0", "1">>),
             Text(<<"1", "4", "0", "3", "-", "0", "1", "-", " ">>),
             Text(<<" ", "1", "4", "0", "3", "/", "0", "1", ".", "0", "2", " ">>),
             NonString("None"), NonString("14030101") }

NoResult == [ok |-> FALSE, norm |-> <<>>, raised |-> ""]

CalFrame == UNCHANGED <<tvars, gvars, dvars, ovars, thvars, obvars, ppvars, ixvars, flvars, sevars, slvars>>

CalQuiet ==
    /\ cal_in = Text(<<>>)
    /\ cal_pc = "input"
    /\ cal_valid = NoResult
    /\ cal_greg = None
    /\ cal_back = <<>>

CalInit ==
    /\ cal_in \in CalendarInputs
    /\ cal_pc = "input"
    /\ cal_valid = NoResult
    /\ cal_greg = None
    /\ cal_back = <<>>

\* validate_jalali_date(cal_in)
Validate ==
    /\ cal_pc = "input"
    /\ cal_pc' = "validated"
    /\ cal_valid' = ValidateArgument(cal_in)
    /\ UNCHANGED <<cal_in, cal_greg, cal_back>>
    /\ CalFrame

\* convert_jalali_to_gregorian(cal_in)
ConvertToGregorian ==
    /\ cal_pc = "validated"
    /\ cal_pc' = "converted"
    /\ cal_greg' = ConvertJalaliToGregorian(cal_in)
    /\ UNCHANGED <<cal_in, cal_valid, cal_back>>
    /\ CalFrame

\* convert_gregorian_to_jalali of the date just obtained
ConvertBack ==
    /\ cal_pc = "converted"
    /\ cal_greg.kind = "date"
    /\ cal_pc' = "back"
    /\ cal_back' = ConvertGregorianToJalali(cal_greg)
    /\ UNCHANGED <<cal_in, cal_valid, cal_greg>>
    /\ CalFrame

CalNext == Validate \/ ConvertToGregorian \/ ConvertBack

-----------------------------------------------------------------------------
(* The price-history parser: PriceService._parse_price_response *)

\* How many lines of the response text are read.
MaxPriceLines == 3

\* A float: its whole part and the digits of its fraction; inf and nan are
\* floats too.  None is the absent value.
Num(whole, frac) == [kind |-> "num", whole |-> whole, frac |-> frac]
Absent == [kind |-> "None", whole |-> 0, frac |-> <<>>]
Special(kind) == [kind |-> kind, whole |-> 0, frac |-> <<>>]

RECURSIVE TrimZeros(_)
TrimZeros(ds) ==
    IF ds # <<>> /\ ds[Len(ds)] = "0" THEN TrimZeros(SubSeq(ds, 1, Len(ds) - 1))
    ELSE ds

AllDigits(s) == \A i \in 1..Len(s) : IsDigit(s[i])

\* float(value): a decimal literal, "inf" or "nan"; otherwise ValueError.
ParseFloat(value) ==
    LET t == Strip(value)
        p == Split(t, ".")
    IN IF t = <<"i", "n", "f">> THEN Special("inf")
       ELSE IF t = <<"n", "a", "n">> THEN Special("nan")
       ELSE IF Len(p) = 1 /\ p[1] # <<>> /\ AllDigits(p[1])
         THEN Num(DigitsValue(p[1]), <<>>)
       ELSE IF Len(p) = 2 /\ AllDigits(p[1]) /\ AllDigits(p[2])
               /\ Len(p[1]) + Len(p[2]) > 0
         THEN Num(DigitsValue(p[1]), TrimZeros(p[2]))
       ELSE Special("ValueError")

\* utils.safe_float_conversion(value)
SafeFloatConversion(value) ==
    IF value = <<>> \/ value = <<"N", "/", "A">> THEN Absent
    ELSE IF ParseFloat(value).kind = "ValueError" THEN Absent
    ELSE ParseFloat(value)

\* utils.safe_int_conversion(value): int(float(value)); int() of nan is a
\* ValueError, which is caught; int() of inf is an OverflowError, which is not.
SafeIntConversion(value) ==
    IF value = <<>> \/ value = <<"N", "/", "A">> THEN Absent
    ELSE LET f == ParseFloat(value)
         IN IF f.kind \in {"ValueError", "nan"} THEN Absent
            ELSE IF f.kind = "inf" THEN Special("OverflowError")
            ELSE Num(f.whole, <<>>)

\* jdatetime.date(year, month, day) accepts years 1..9377.
JdatetimeDateOk(year, month, day) ==
    year >= 1 /\ year <= 9377 /\ JalaliDateOk(year, month, day)

Skipped == [status |-> "skip", record |-> <<>>]

\* The body of the loop of _parse_price_response for one line: the record
\* appended, nothing, or the exception that leaves the loop.
ParsePriceLine(line) ==
    LET parts == Split(line, ",") IN
    IF Strip(line) = <<>> THEN Skipped
    ELSE IF Len(parts) < 9 THEN Skipped
    ELSE IF Len(parts[1]) # 8 THEN Skipped
    ELSE
      LET ys == SubSeq(parts[1], 1, 4)
          ms == SubSeq(parts[1], 5, 6)
          ds == SubSeq(parts[1], 7, 8)
      IN IF ~IntOk(ys) \/ ~IntOk(ms) \/ ~IntOk(ds) THEN Skipped
         ELSE IF ~JdatetimeDateOk(IntOf(ys), IntOf(ms), IntOf(ds)) THEN Skipped
         ELSE
           LET record ==
                 [Date |-> NormalForm(IntOf(ys), IntOf(ms), IntOf(ds)),
                  Open |-> SafeFloatConversion(parts[9]),
                  High |-> SafeFloatConversion(parts[2]),
                  Low |-> SafeFloatConversion(parts[3]),
                  Close |-> SafeFloatConversion(parts[4]),
                  Last |-> SafeFloatConversion(parts[5]),
                  Count |-> SafeIntConversion(parts[6]),
                  Volume |-> SafeIntConversion(parts[7]),
                  Value |-> SafeIntConversion(parts[8])]
           IN IF \E c \in {"Count", "Volume", "Value"} :
                     record[c].kind = "OverflowError"
                THEN [status |-> "raise", record |-> <<>>]
                ELSE [status |-> "record", record |-> record]

NumericColumns == {"Open", "High", "Low", "Close", "Last", "Count", "Volume", "Value"}

\* pandas' isna of a numeric cell
IsNa(cell) == cell.kind \in {"None", "nan"}

\* _clean_dataframe on a frame of price records: the rows and the columns
\* that are empty throughout are dropped (the Date column is never empty).
CleanPriceFrame(df) ==
    [rows |-> df,
     columns |-> IF df = <<>> THEN {}
                 ELSE {"Date"} \cup {c \in NumericColumns :
                                       \E i \in 1..Len(df) : ~IsNa(df[i][c])}]

\* the row of 2024-03-20: "20240320,105,95,100,101,50,1000,100000,99"
PlainLine ==
    <<"2", "0", "2", "4", "0", "3", "2", "0", ",", "1", "0", "5", ",", "9",
    "5", ",", "1", "0", "0", ",", "1", "0", "1", ",", "5", "0", ",", "1",
    "0", "0", "0", ",", "1", "0", "0", "0", "0", "0", ",", "9", "9">>

\* a row of 2024-10-31: "20241031,110,90,100,102,60,2000,200000,98"
LastOfOctoberLine ==
    <<"2", "0", "2", "4", "1", "0", "3", "1", ",", "1", "1", "0", ",", "9",
    "0", ",", "1", "0", "0", ",", "1", "0", "2", ",", "6", "0", ",", "2",
    "0", "0", "0", ",", "2", "0", "0", "0", "0", "0", ",", "9", "8">>

\* a row of seven fields: "20240321,106,96,101,102,51,1100"
ShortLine ==
    <<"2", "0", "2", "4", "0", "3", "2", "1", ",", "1", "0", "6", ",", "9",
    "6", ",", "1", "0", "1", ",", "1", "0", "2", ",", "5", "1", ",", "1",
    "1", "0", "0">>

\* a row with high, close and count that are no numbers: "20240323,N/A,96,abc,102,,1100,110000,100"
GapsLine ==
    <<"2", "0", "2", "4", "0", "3", "2", "3", ",", "N", "/", "A", ",", "9",
    "6", ",", "a", "b", "c", ",", "1", "0", "2", ",", ",", "1", "1", "0",
    "0", ",", "1", "1", "0", "0", "0", "0", ",", "1", "0", "0">>

\* a row whose count reads inf: "20240324,107,97,102,103,inf,1200,120000,101"
InfiniteCountLine ==
    <<"2", "0", "2", "4", "0", "3", "2", "4", ",", "1", "0", "7", ",", "9",
    "7", ",", "1", "0", "2", ",", "1", "0", "3", ",", "i", "n", "f", ",",
    "1", "2", "0", "0", ",", "1", "2", "0", "0", "0", "0", ",", "1", "0",
    "1">>

\* a row with decimals: "20240325,107.50,97,102,103,52.9,1200,120000,101"
DecimalLine ==
    <<"2", "0", "2", "4", "0", "3", "2", "5", ",", "1", "0", "7", ".", "5",
    "0", ",", "9", "7", ",", "1", "0", "2", ",", "1", "0", "3", ",", "5",
    "2", ".", "9", ",", "1", "2", "0", "0", ",", "1", "2", "0", "0", "0",
    "0", ",", "1", "0", "1">>

\* a row whose date is not 8 digits: "2024032x,1,1,1,1,1,1,1,1"
BadDateLine ==
    <<"2", "0", "2", "4", "0", "3", "2", "x", ",", "1", ",", "1", ",", "1",
    ",", "1", ",", "1", ",", "1", ",", "1", ",", "1">>

PriceLines ==
    { PlainLine, LastOfOctoberLine, ShortLine, GapsLine, InfiniteCountLine,
      DecimalLine, BadDateLine, <<>> }

NoFrame == [rows |-> <<>>, columns |-> {}]

PpFrame == UNCHANGED <<tvars, gvars, dvars, ovars, thvars, obvars, calvars, ixvars, flvars, sevars, slvars>>

PpQuiet ==
    /\ pp_pc = "parsing"
    /\ pp_lines = <<>>
    /\ price_records = <<>>
    /\ pp_source = <<>>
    /\ pp_frame = <<>>
    /\ pp_clean = NoFrame

PpInit == PpQuiet

\* One turn of the loop over the lines of the response text.
ParseLine(line) ==
    /\ pp_pc = "parsing"
    /\ Len(pp_lines) < MaxPriceLines
    /\ pp_lines' = Append(pp_lines, line)
    /\ LET r == ParsePriceLine(line)
       IN CASE r.status = "skip" ->
                 UNCHANGED <<pp_pc, price_records, pp_source, pp_frame>>
            [] r.status = "record" ->
                 /\ price_records' = Append(price_records, r.record)
                 /\ pp_source' = Append(pp_source, Len(pp_lines) + 1)
                 /\ UNCHANGED <<pp_pc, pp_frame>>
            [] OTHER ->
                 \* `except Exception`: return pd.DataFrame()
                 /\ pp_pc' = "parsed"
                 /\ pp_frame' = <<>>
                 /\ UNCHANGED <<price_records, pp_source>>
    /\ UNCHANGED pp_clean
    /\ PpFrame

\* No more lines: return pd.DataFrame(price_records)
EndOfText ==
    /\ pp_pc = "parsing"
    /\ pp_pc' = "parsed"
    /\ pp_frame' = price_records
    /\ UNCHANGED <<pp_lines, price_records, pp_source, pp_clean>>
    /\ PpFrame

\* _clean_dataframe of the parsed frame
CleanParsed ==
    /\ pp_pc = "parsed"
    /\ pp_pc' = "done"
    /\ pp_clean' = CleanPriceFrame(pp_frame)
    /\ UNCHANGED <<pp_lines, price_records, pp_source, pp_frame>>
    /\ PpFrame

PpNext ==
    \/ \E line \in PriceLines : ParseLine(line)
    \/ EndOfText
    \/ CleanParsed

-----------------------------------------------------------------------------
(* get_index_history: the OHLC feed joined with the adjusted-close feed *)

\* How many days a feed of the index lists.
MaxIndexRows == 3

\* The days the feeds can list, as dEven: 1403-01-01 to 1403-01-04.
IndexDays == {20240320, 20240321, 20240322, 20240323}

\* The range asked for: its last day is one before the last day of the feeds.
IndexRange ==
    [start_date |-> NormalForm(1403, 1, 1), end_date |-> NormalForm(1403, 1, 3)]

\* The days of a feed, in the order it lists them, each at most once.
DayLists ==
    { s \in UNION { [1..n -> IndexDays] : n \in 0..MaxIndexRows } :
          \A i, j \in DOMAIN s : i # j => s[i] # s[j] }

\* An element of indexB2.
AdjCloseItem(d) == [dEven |-> d, xNivInuClMresIbs |-> 1300000 + (d % 100)]

AdjCloseFeeds == { [i \in DOMAIN s |-> AdjCloseItem(s[i])] : s \in DayLists }

\* row.split(','): the seven fields of a row of the OHLC text, the row
\* without its last field, and the item after a trailing ';'.
OhlcRow(d) ==
    <<Digits(d), Digits(1305000 + (d % 100)), Digits(1295000 + (d % 100)),
      Digits(1300000 + (d % 100)), Digits(1302000 + (d % 100)), Digits(1000),
      <<"d">>>>

ShortOhlcRow(d) == SubSeq(OhlcRow(d), 1, 6)

EmptyOhlcRow == << <<>> >>

\* [row.split(',') for row in text.split(';')]: the text of the days listed,
\* with or without a trailing ';', or with its first row short of a field.
\* An empty text gives the one item ''.
OhlcFeeds ==
    { [i \in DOMAIN s |-> OhlcRow(s[i])] \o tail :
          s \in DayLists \ {<<>>}, tail \in {<<>>, <<EmptyOhlcRow>>} }
      \cup { <<EmptyOhlcRow>> }
      \cup { <<ShortOhlcRow(s[1])>> \o [i \in 1..(Len(s) - 1) |-> OhlcRow(s[i + 1])] :
                 s \in DayLists \ {<<>>} }

\* pd.to_datetime of '20240320' or '2024-03-20'
ToDatetime(text) ==
    LET ds == SelectSeq(text, IsDigit)
    IN [year |-> DigitsValue(SubSeq(ds, 1, 4)), month |-> DigitsValue(SubSeq(ds, 5, 6)),
        day |-> DigitsValue(SubSeq(ds, 7, Len(ds)))]

\* str(dEven) written f'{x[:4]}-{x[4:6]}-{x[6:]}'
DashedDate(dEven) ==
    LET x == Digits(dEven)
    IN SubSeq(x, 1, 4) \o <<"-">> \o SubSeq(x, 5, 6) \o <<"-">> \o SubSeq(x, 7, Len(x))

\* df_adj_close: Date, Adj Close and J-Date of every element of indexB2.
AdjCloseFrame(indexB2) ==
    [i \in DOMAIN indexB2 |->
        [Date |-> ToDatetime(DashedDate(indexB2[i].dEven)),
         AdjClose |-> indexB2[i].xNivInuClMresIbs,
         J_Date |-> JalaliString(ToDatetime(DashedDate(indexB2[i].dEven)))]]

\* The widest row of the data handed to pd.DataFrame.
RECURSIVE Widest(_)
Widest(rows) ==
    IF rows = <<>> THEN 0
    ELSE IF Len(Head(rows)) >= Widest(Tail(rows)) THEN Len(Head(rows))
    ELSE Widest(Tail(rows))

\* df_ohlc: pd.DataFrame pads the shorter rows with None, dropna() drops
\* them, column D is dropped and Date parsed.
OhlcFrame(rows) ==
    LET whole == SelectSeq(rows, LAMBDA r : Len(r) = 7)
    IN [i \in DOMAIN whole |->
          [Date |-> ToDatetime(whole[i][1]), High |-> DigitsValue(whole[i][2]),
           Low |-> DigitsValue(whole[i][3]), Open |-> DigitsValue(whole[i][4]),
           Close |-> DigitsValue(whole[i][5]), Volume |-> DigitsValue(whole[i][6])]]

Joined(l, r) ==
    [Date |-> l.Date, J_Date |-> r.J_Date, Open |-> l.Open, High |-> l.High,
     Low |-> l.Low, Close |-> l.Close, Volume |-> l.Volume, AdjClose |-> r.AdjClose]

\* A join that keeps the rows of the right frame that have no match.
RECURSIVE MergeKeepingRight(_, _)
MergeKeepingRight(left, right) ==
    IF right = <<>> THEN <<>>
    ELSE LET r == Head(right)
             ls == SelectSeq(left, LAMBDA l : l.Date = r.Date)
         IN (IF ls = <<>>
               THEN <<[Date |-> r.Date, J_Date |-> r.J_Date, Open |-> None,
                       High |-> None, Low |-> None, Close |-> None,
                       Volume |-> None, AdjClose |-> r.AdjClose]>>
               ELSE [i \in DOMAIN ls |-> Joined(ls[i], r)])
              \o MergeKeepingRight(left, Tail(right))

\* pd.merge(left, right, on='Date', how='inner'): a row for every pair of a
\* left and a right row of the same Date, in the order of the left frame.
RECURSIVE Merge(_, _)
Merge(left, right) ==
    IF left = <<>> THEN <<>>
    ELSE LET l == Head(left)
             rs == SelectSeq(right, LAMBDA r : r.Date = l.Date)
         IN [i \in DOMAIN rs |-> Joined(l, rs[i])] \o Merge(Tail(left), right)

DateKey(d) == d.year * 10000 + d.month * 100 + d.day

\* result_df.sort_values('Date')
RECURSIVE SortByDate(_)
SortByDate(rows) ==
    IF rows = <<>> THEN <<>>
    ELSE LET k == CHOOSE i \in 1..Len(rows) :
                      \A j \in 1..Len(rows) : DateKey(rows[i].Date) <= DateKey(rows[j].Date)
         IN <<rows[k]>> \o SortByDate([i \in 1..(Len(rows) - 1) |->
                                         IF i < k THEN rows[i] ELSE rows[i + 1]])

\* result_df.loc[start_date:end_date] on the index J-Date
LocSlice(rows, range) ==
    SelectSeq(rows, LAMBDA r : /\ StrLessEq(range.start_date, r.J_Date)
                               /\ StrLessEq(r.J_Date, range.end_date))

\* The rest of get_index_history once its frame is built: sorted, sliced
\* unless ignore_date, DataError when empty, the Date column dropped.
IndexTable(rows, args) ==
    LET sorted == SortByDate(rows)
        kept == IF args.ignore_date THEN sorted ELSE LocSlice(sorted, IndexRange)
    IN IF kept = <<>> THEN Raise("DataError", 0)
       ELSE Table(CleanDataframe(
                [i \in DOMAIN kept |->
                    [c \in DOMAIN kept[i] \ {"Date"} |-> kept[i][c]]]))

NoArgs == [just_adj_close |-> FALSE, ignore_date |-> FALSE]

IxFrame == UNCHANGED <<tvars, gvars, dvars, ovars, thvars, obvars, calvars, ppvars, flvars, sevars, slvars>>

IxQuiet ==
    /\ ix_pc = "idle"
    /\ ix_args = NoArgs
    /\ ix_adj = <<>>
    /\ ix_ohlc = <<>>
    /\ ix_outcome = None

IxInit == IxQuiet

\* The call has passed its validations and sends the adjusted-close request.
GetIndexHistory(just_adj_close, ignore_date) ==
    /\ ix_pc = "idle"
    /\ ix_pc' = "adj_request"
    /\ ix_args' = [just_adj_close |-> just_adj_close, ignore_date |-> ignore_date]
    /\ UNCHANGED <<ix_adj, ix_ohlc, ix_outcome>>
    /\ IxFrame

\* The adjusted-close request answers. An empty indexB2 gives a frame without
\* columns, whose selection raises KeyError: the handler raises ApiError.
AdjCloseResponse(indexB2) ==
    /\ ix_pc = "adj_request"
    /\ ix_adj' = indexB2
    /\ IF indexB2 = <<>>
         THEN ix_pc' = "done" /\ ix_outcome' = Raise("ApiError", 0)
         ELSE IF ix_args.just_adj_close
           THEN /\ ix_pc' = "done"
                /\ ix_outcome' = IndexTable(AdjCloseFrame(indexB2), ix_args)
           ELSE ix_pc' = "ohlc_request" /\ UNCHANGED ix_outcome
    /\ UNCHANGED <<ix_args, ix_ohlc>>
    /\ IxFrame

\* A request of the operation raises: the typed error is re-raised.
IndexRequestFails(error) ==
    /\ ix_pc \in {"adj_request", "ohlc_request"}
    /\ ix_pc' = "done"
    /\ ix_outcome' = Raise(error, 0)
    /\ UNCHANGED <<ix_args, ix_adj, ix_ohlc>>
    /\ IxFrame

\* The OHLC request answers. pd.DataFrame raises ValueError unless the widest
\* row has the seven columns named: the handler raises ApiError.
OhlcResponse(rows) ==
    /\ ix_pc = "ohlc_request"
    /\ ix_pc' = "done"
    /\ ix_ohlc' = rows
    /\ ix_outcome' =
          IF Widest(rows) # 7 THEN Raise("ApiError", 0)
          ELSE IndexTable(Merge(OhlcFrame(rows), AdjCloseFrame(ix_adj)), ix_args)
    /\ UNCHANGED <<ix_args, ix_adj>>
    /\ IxFrame

IxNext ==
    \/ \E just_adj_close, ignore_date \in BOOLEAN :
          GetIndexHistory(just_adj_close, ignore_date)
    \/ \E indexB2 \in AdjCloseFeeds : AdjCloseResponse(indexB2)
    \/ \E error \in RequestErrors : IndexRequestFails(error)
    \/ \E rows \in OhlcFeeds : OhlcResponse(rows)

-----------------------------------------------------------------------------
(* _filter_by_date_range: the rows of the parsed table within the range *)

\* How many rows the parsed table has.
MaxFilterRows == 3

\* The Date strings of the rows _parse_price_response emits for the rows of
\* 2024-03-19 to 2024-03-22.
ParsedDates == { NormalForm(2024, 3, d) : d \in 19..22 }

FilterTables ==
    UNION { [1..n -> { [Date |-> d] : d \in ParsedDates }] : n \in 0..MaxFilterRows }

\* The ranges the filter is handed: a local range, a local range ending on
\* the 31st of the second month, and a Gregorian range (ignore_date=True).
FilterRanges ==
    { [start_date |-> NormalForm(1403, 1, 1), end_date |-> NormalForm(1403, 1, 3)],
      [start_date |-> NormalForm(1403, 1, 1), end_date |-> NormalForm(1403, 2, 31)],
      [start_date |-> NormalForm(2024, 3, 20), end_date |-> NormalForm(2024, 3, 21)] }

GregorianLeap(year) == (year % 4 = 0 /\ year % 100 # 0) \/ year % 400 = 0

\* Whether pd.to_datetime(text) returns: the text names a day of the
\* Gregorian calendar and, where timestamps count nanoseconds, a year they
\* can hold (1678 to 2261).
TimestampOk(text, nanoseconds) ==
    LET d == ToDatetime(text)
    IN /\ d.month \in 1..12
       /\ d.day >= 1
       /\ d.day <= GDaysInMonth[d.month]
                     + (IF d.month = 2 /\ GregorianLeap(d.year) THEN 1 ELSE 0)
       /\ nanoseconds => d.year \in 1678..2261

\* sort_values('Date'): by the Date strings
RECURSIVE SortByDateString(_)
SortByDateString(rows) ==
    IF rows = <<>> THEN <<>>
    ELSE LET k == CHOOSE i \in 1..Len(rows) :
                      \A j \in 1..Len(rows) : StrLessEq(rows[i].Date, rows[j].Date)
         IN <<rows[k]>> \o SortByDateString([i \in 1..(Len(rows) - 1) |->
                                               IF i < k THEN rows[i] ELSE rows[i + 1]])

\* _filter_by_date_range(data, start_date, end_date): the rows within the
\* range sorted by Date; when a pd.to_datetime raises, the handler returns
\* the table as it is, with the Date_dt column when that was already added.
FilterByDateRange(data, start_date, end_date, nanoseconds) ==
    IF data = <<>> THEN data
    ELSE IF \E i \in 1..Len(data) : ~TimestampOk(data[i].Date, nanoseconds) THEN data
    ELSE IF ~TimestampOk(start_date, nanoseconds) \/ ~TimestampOk(end_date, nanoseconds)
      THEN [i \in 1..Len(data) |->
              [Date |-> data[i].Date, Date_dt |-> ToDatetime(data[i].Date)]]
    ELSE SortByDateString(SelectSeq(data, LAMBDA r :
             /\ DateKey(ToDatetime(r.Date)) >= DateKey(ToDatetime(start_date))
             /\ DateKey(ToDatetime(r.Date)) <= DateKey(ToDatetime(end_date))))

FlFrame == UNCHANGED <<tvars, gvars, dvars, ovars, thvars, obvars, calvars, ppvars, ixvars, sevars, slvars>>

FlQuiet ==
    /\ fl_data = <<>>
    /\ fl_range = [start_date |-> <<>>, end_date |-> <<>>]
    /\ fl_nanoseconds = TRUE
    /\ fl_result = None

FlInit ==
    /\ fl_data \in FilterTables
    /\ fl_range \in FilterRanges
    /\ fl_nanoseconds \in BOOLEAN
    /\ fl_result = None

\* filtered_data = self._filter_by_date_range(price_data, start_date, end_date)
Filter ==
    /\ fl_result = None
    /\ fl_result' = [df |-> FilterByDateRange(fl_data, fl_range.start_date,
                                               fl_range.end_date, fl_nanoseconds)]
    /\ UNCHANGED <<fl_data, fl_range, fl_nanoseconds>>
    /\ FlFrame

FlNext == Filter

-----------------------------------------------------------------------------
(* StockService.search: two upstream endpoints, then the known mappings *)

\* A row of a search result. Names and symbols are written in Latin
\* letters; "|" stands for the zero-width non-joiner.
Instrument(name, symbol, web_id) ==
    [Name |-> name, Symbol |-> symbol, WebID |-> web_id]

\* stock_mapping of _fallback_search, each key being the Symbol of its entry
StockMapping ==
    << Instrument(<<"b", "a", "n", "k", " ", "m">>, <<"b", "a", "n", "k">>, "778253364357513"),
       Instrument(<<"z", "o", "b", " ", "a", "n">>, <<"z", "o", "b">>, "778253364357515") >>

\* The instrument the upstream lists and the mappings do not know
Listed == Instrument(<<"x", "y", " ", "c", "o">>, <<"x", "y">>, "111")

\* The queries search is called with: None, "", " z ", and names of two
\* letters and more.
Queries ==
    { None, Text(<<>>), Text(<<" ", "z", " ">>), Text(<<"z", "o", "b">>),
      Text(<<" ", "Z", "O", "B", "|">>), Text(<<"a", "n">>),
      Text(<<"x", "y">>), Text(<<"q", "q", " ", " ", "q", "q", "q", "q">>) }

\* The answers of the upstream to one search request: the request raises,
\* an HTML page, or a text of items; an item of the new endpoint is a JSON
\* object or not, a line of the old one has six comma-separated parts or three.
SearchResponses ==
    { [kind |-> "error", items |-> <<>>], [kind |-> "html", items |-> <<>>],
      [kind |-> "data", items |-> <<>>],
      [kind |-> "data", items |-> <<[dict |-> FALSE]>>],
      [kind |-> "data", items |-> <<[dict |-> TRUE, lVal30 |-> Listed.Name,
                                     lVal18AFC |-> Listed.Symbol, insCode |-> Listed.WebID]>>],
      [kind |-> "data", items |-> <<[parts |-> <<Listed.Name, Listed.Symbol, Listed.WebID>>]>>],
      [kind |-> "data", items |-> <<[parts |-> <<Listed.Name, Listed.Symbol, Listed.WebID,
                                                 "1", "co", "IR1">>]>>] }

\* str.lower()
Lower(text) == [i \in 1..Len(text) |-> LowerChar(text[i])]

\* ' '.join(text.split())
RECURSIVE JoinSplit(_)
JoinSplit(text) ==
    IF text = <<>> THEN text
    ELSE IF Head(text) = " " /\ (Len(text) = 1 \/ text[2] = " ") THEN JoinSplit(Tail(text))
    ELSE <<Head(text)>> \o JoinSplit(Tail(text))

\* clean_persian_text on a text without Arabic letters
clean_persian_text(text) ==
    Strip(JoinSplit(Strip([i \in 1..Len(text) |-> IF text[i] = "|" THEN " " ELSE text[i]])))

\* _parse_new_search_response: the objects of the JSON list
RECURSIVE ParseNewSearchResponse(_)
ParseNewSearchResponse(items) ==
    IF items = <<>> THEN <<>>
    ELSE (IF "dict" \in DOMAIN Head(items) /\ Head(items).dict
            THEN <<Instrument(clean_persian_text(Head(items).lVal30),
                              clean_persian_text(Head(items).lVal18AFC),
                              Head(items).insCode)>>
            ELSE <<>>) \o ParseNewSearchResponse(Tail(items))

\* _parse_search_response: the lines of at least four parts
RECURSIVE ParseSearchResponse(_)
ParseSearchResponse(items) ==
    IF items = <<>> THEN <<>>
    ELSE (IF "parts" \in DOMAIN Head(items) /\ Len(Head(items).parts) >= 4
            THEN <<Instrument(clean_persian_text(Head(items).parts[1]),
                              clean_persian_text(Head(items).parts[2]),
                              Head(items).parts[3])>>
            ELSE <<>>) \o ParseSearchResponse(Tail(items))

\* _fallback_search: the entries of stock_mapping the query matches
RECURSIVE MatchMapping(_, _)
MatchMapping(mapping, query_normalized) ==
    IF mapping = <<>> THEN <<>>
    ELSE (IF \/ Contains(Lower(Head(mapping).Symbol), query_normalized)
             \/ Contains(query_normalized, Lower(Head(mapping).Symbol))
             \/ Contains(Lower(Head(mapping).Name), query_normalized)
            THEN <<Head(mapping)>> ELSE <<>>) \o MatchMapping(Tail(mapping), query_normalized)

FallbackSearch(query) == MatchMapping(StockMapping, Strip(Lower(query)))

\* The row search makes up when nothing was found
MockResult(query) ==
    Instrument(<<"D", "e", "m", "o", " ", "S", "t", "o", "c", "k", " ", "f", "o", "r", " ">> \o query,
               IF Len(query) >= 3 THEN SubSeq(query, 1, Min(6, Len(query))) ELSE query,
               "12345678901234567")

\* The rows of the last step of search: the mappings, else the made-up row
FallbackResults(query) ==
    IF FallbackSearch(clean_persian_text(query)) = <<>>
      THEN <<MockResult(query)>>
      ELSE FallbackSearch(clean_persian_text(query))

SeFrame == UNCHANGED <<tvars, gvars, dvars, ovars, thvars, obvars, calvars, ppvars, ixvars, flvars, slvars>>

SeQuiet ==
    /\ se_query = None
    /\ se_pc = "idle"
    /\ se_responses = <<>>
    /\ se_listed = {}
    /\ se_result = None

SeInit == SeQuiet

\* search(query) up to its first request: the validation of the query
SearchCalled(query) ==
    /\ se_pc = "idle"
    /\ se_query' = query
    /\ se_responses' = <<>>
    /\ se_listed' = {}
    /\ IF query = None \/ Raw(query) = <<>> \/ Len(Strip(Raw(query))) < 2
         THEN se_pc' = "done" /\ se_result' = Raise("ValidationError", 0)
         ELSE se_pc' = "new" /\ se_result' = None
    /\ SeFrame

Found(rows) == [tag |-> "return", df |-> rows]

\* The request to GetInstrumentSearch and what search does with its answer
NewEndpoint(response) ==
    /\ se_pc = "new"
    /\ LET found == IF response.kind = "data"
                        THEN ParseNewSearchResponse(response.items) ELSE <<>>
       IN /\ se_listed' = se_listed \cup { found[k] : k \in 1..Len(found) }
          /\ IF found # <<>>
               THEN se_pc' = "done" /\ se_result' = Found(found)
               ELSE se_pc' = "old" /\ se_result' = None
    /\ se_responses' = Append(se_responses, response)
    /\ UNCHANGED se_query
    /\ SeFrame

\* The request to search.aspx, and the rest of search when it brings nothing
OldEndpoint(response) ==
    /\ se_pc = "old"
    /\ LET found == IF response.kind = "data"
                        THEN ParseSearchResponse(response.items) ELSE <<>>
       IN /\ se_listed' = se_listed \cup { found[k] : k \in 1..Len(found) }
          /\ se_result' = IF found # <<>>
                            THEN Found(found)
                            ELSE Found(FallbackResults(Strip(Raw(se_query))))
    /\ se_pc' = "done"
    /\ se_responses' = Append(se_responses, response)
    /\ UNCHANGED se_query
    /\ SeFrame

SeNext ==
    \/ \E query \in Queries : SearchCalled(query)
    \/ \E response \in SearchResponses : NewEndpoint(response)
    \/ \E response \in SearchResponses : OldEndpoint(response)

-----------------------------------------------------------------------------
(* DataService.build_stock_list *)

\* The most rows one market listing holds
MaxListingRows == 2

\* The texts of the anchors of a listing: two tickers, one of them also
\* written with a trailing space.
TickerTexts == { <<"a">>, <<"a", " ">>, <<"b">> }

WebIds == {"1", "2"}

\* The listings of Bourse and Fara-Bourse of at most rows anchors, each of a
\* text and an href
Listings(rows) ==
    UNION { [1..n -> [text : TickerTexts, web_id : WebIds]] : n \in 0..rows }

\* The rows of the Payeh listing, which carry no web id
PayehListings ==
    UNION { [1..n -> [text : TickerTexts]] : n \in 0..1 }

\* _get_market_stocks: one row for each anchor of the listing
GetMarketStocks(listing, market_name) ==
    [k \in 1..Len(listing) |->
        [Ticker |-> clean_persian_text(listing[k].text),
         WEB_ID |-> listing[k].web_id, Market |-> market_name, Detail |-> "NaN"]]

\* _get_payeh_stocks
GetPayehStocks(listing) ==
    [k \in 1..Len(listing) |->
        [Ticker |-> clean_persian_text(listing[k].text),
         WEB_ID |-> "", Market |-> "payeh", Detail |-> "NaN"]]

\* drop_duplicates keeping the last row of each ticker
RECURSIVE DropDuplicatesKeepLast(_)
DropDuplicatesKeepLast(rows) ==
    IF rows = <<>> THEN rows
    ELSE LET rest == DropDuplicatesKeepLast(Tail(rows))
         IN IF \E k \in 1..Len(rest) : rest[k].Ticker = Head(rows).Ticker
              THEN rest ELSE <<Head(rows)>> \o rest

\* drop_duplicates(subset=['Ticker']): the first row of each ticker
RECURSIVE DropDuplicates(_)
DropDuplicates(rows) ==
    IF rows = <<>> THEN rows
    ELSE LET rest == DropDuplicates(SubSeq(rows, 1, Len(rows) - 1))
             last == rows[Len(rows)]
         IN IF \E k \in 1..Len(rest) : rest[k].Ticker = last.Ticker
              THEN rest ELSE Append(rest, last)

\* df_stocks.join(df_details, on='WEB-ID'): every row of df_stocks once for
\* each row of df_details of its web id, and once when there is none.
RECURSIVE Join(_, _)
Join(df_stocks, df_details) ==
    IF df_stocks = <<>> THEN <<>>
    ELSE LET row == Head(df_stocks)
             matches == SelectSeq(df_details, LAMBDA d : d = row.WEB_ID)
         IN (IF matches = <<>> THEN <<row>>
             ELSE [k \in 1..Len(matches) |-> [row EXCEPT !.Detail = "read"]])
              \o Join(Tail(df_stocks), df_details)

\* _get_detailed_stock_info: get_web_id fills the web ids of the Payeh rows
\* (resolved, left "" when get_web_id raises), the rows left without one are
\* dropped, the detail page of every remaining row is fetched (read holds
\* the web ids for which _fetch_detail does not return None), and the
\* details are joined; set_index('WEB-ID') raises KeyError on no details.
GetDetailedStockInfo(df_stocks, resolved, read) ==
    LET filled == [k \in 1..Len(df_stocks) |->
                     IF df_stocks[k].WEB_ID = ""
                       THEN [df_stocks[k] EXCEPT !.WEB_ID = resolved]
                       ELSE df_stocks[k]]
        kept == SelectSeq(filled, LAMBDA r : r.WEB_ID # "")
        web_ids == [k \in 1..Len(kept) |-> kept[k].WEB_ID]
        details == SelectSeq(web_ids, LAMBDA w : w \in read)
    IN IF details = <<>> THEN Raise("KeyError", 0)
       ELSE Table(Join(kept, details))

\* build_stock_list(markets, detailed_list)
BuildStockListResult(markets, detailed_list, pages, resolved, read) ==
    LET all_stocks ==
            (IF "bourse" \in markets THEN GetMarketStocks(pages.bourse, "bourse") ELSE <<>>)
              \o (IF "farabourse" \in markets
                    THEN GetMarketStocks(pages.farabourse, "farabourse") ELSE <<>>)
              \o (IF "payeh" \in markets THEN GetPayehStocks(pages.payeh) ELSE <<>>)
    IN IF all_stocks = <<>> THEN Raise("KeyError", 0)
       ELSE IF detailed_list
         THEN GetDetailedStockInfo(DropDuplicates(all_stocks), resolved, read)
       ELSE Table(DropDuplicates(all_stocks))

SlFrame == UNCHANGED <<tvars, gvars, dvars, ovars, thvars, obvars, calvars, ppvars, ixvars, flvars, sevars>>

SlQuiet ==
    /\ sl_args = None
    /\ sl_pages = None
    /\ sl_detailed = None
    /\ sl_result = None

SlInit == SlQuiet

BuildStockList(markets, detailed_list, pages, resolved, read) ==
    /\ sl_result = None
    /\ sl_args' = [markets |-> markets, detailed_list |-> detailed_list]
    /\ sl_pages' = pages
    /\ sl_detailed' = [resolved |-> resolved, read |-> read]
    /\ sl_result' = BuildStockListResult(markets, detailed_list, pages, resolved, read)
    /\ SlFrame

SlNext ==
    /\ sl_result = None
    /\ \E markets \in SUBSET {"bourse", "farabourse", "payeh"}, detailed_list \in BOOLEAN,
          pages \in [bourse : Listings(MaxListingRows), farabourse : Listings(MaxListingRows - 1),
                    payeh : PayehListings],
          resolved \in WebIds \cup {""}, read \in SUBSET WebIds :
           BuildStockList(markets, detailed_list, pages, resolved, read)

-----------------------------------------------------------------------------
(* Specifications *)

InitTransport == TInit /\ GInit /\ DQuiet /\ OQuiet /\ ThQuiet /\ ObQuiet /\ CalQuiet /\ PpQuiet /\ IxQuiet /\ FlQuiet /\ SeQuiet /\ SlQuiet

SpecTransport == InitTransport /\ [][TNext]_vars

InitGate == TQuiet /\ GInit /\ DQuiet /\ OQuiet /\ ThQuiet /\ ObQuiet /\ CalQuiet /\ PpQuiet /\ IxQuiet /\ FlQuiet /\ SeQuiet /\ SlQuiet

SpecGate == InitGate /\ [][GNext]_vars

InitDates == TQuiet /\ GInit /\ DInit /\ OQuiet /\ ThQuiet /\ ObQuiet /\ CalQuiet /\ PpQuiet /\ IxQuiet /\ FlQuiet /\ SeQuiet /\ SlQuiet

SpecDates == InitDates /\ [][DNext]_vars

InitOperations == TQuiet /\ GInit /\ DQuiet /\ OInit /\ ThQuiet /\ ObQuiet /\ CalQuiet /\ PpQuiet /\ IxQuiet /\ FlQuiet /\ SeQuiet /\ SlQuiet

SpecOperations == InitOperations /\ [][ONext]_vars

InitTrades == TQuiet /\ GInit /\ DQuiet /\ OQuiet /\ ThInit /\ ObQuiet /\ CalQuiet /\ PpQuiet /\ IxQuiet /\ FlQuiet /\ SeQuiet /\ SlQuiet

SpecTrades == InitTrades /\ [][ThNext]_vars

InitOb == TQuiet /\ GInit /\ DQuiet /\ OQuiet /\ ThQuiet /\ ObInit /\ CalQuiet /\ PpQuiet /\ IxQuiet /\ FlQuiet /\ SeQuiet /\ SlQuiet

SpecOb == InitOb /\ [][ObNext]_vars

InitCalendar == TQuiet /\ GInit /\ DQuiet /\ OQuiet /\ ThQuiet /\ ObQuiet /\ CalInit /\ PpQuiet /\ IxQuiet /\ FlQuiet /\ SeQuiet /\ SlQuiet

SpecCalendar == InitCalendar /\ [][CalNext]_vars

InitPrice == TQuiet /\ GInit /\ DQuiet /\ OQuiet /\ ThQuiet /\ ObQuiet /\ CalQuiet /\ PpInit /\ IxQuiet /\ FlQuiet /\ SeQuiet /\ SlQuiet

SpecPrice == InitPrice /\ [][PpNext]_vars

\* The two intraday history operations, one call at a time.
IntradayNext ==
    \/ ob_pc = "idle" /\ ThNext
    \/ th_pc = "idle" /\ ObNext

InitIntraday == TQuiet /\ GInit /\ DQuiet /\ OQuiet /\ ThInit /\ ObInit /\ CalQuiet /\ PpQuiet /\ IxQuiet /\ FlQuiet /\ SeQuiet /\ SlQuiet

SpecIntraday == InitIntraday /\ [][IntradayNext]_vars

InitIndex == TQuiet /\ GInit /\ DQuiet /\ OQuiet /\ ThQuiet /\ ObQuiet /\ CalQuiet /\ PpQuiet /\ IxInit /\ FlQuiet /\ SeQuiet /\ SlQuiet

SpecIndex == InitIndex /\ [][IxNext]_vars

SpecLongRange == InitTrades /\ [][LongRangeNext]_vars

InitFilter == TQuiet /\ GInit /\ DQuiet /\ OQuiet /\ ThQuiet /\ ObQuiet /\ CalQuiet /\ PpQuiet /\ IxQuiet /\ FlInit /\ SeQuiet /\ SlQuiet

SpecFilter == InitFilter /\ [][FlNext]_vars

InitSearch == TQuiet /\ GInit /\ DQuiet /\ OQuiet /\ ThQuiet /\ ObQuiet /\ CalQuiet /\ PpQuiet /\ IxQuiet /\ FlQuiet /\ SeInit /\ SlQuiet

SpecSearch == InitSearch /\ [][SeNext]_vars

InitStockList == TQuiet /\ GInit /\ DQuiet /\ OQuiet /\ ThQuiet /\ ObQuiet /\ CalQuiet /\ PpQuiet /\ IxQuiet /\ FlQuiet /\ SeQuiet /\ SlInit

SpecStockList == InitStockList /\ [][SlNext]_vars

-----------------------------------------------------------------------------
(* Claims about the transport *)

HttpErrorResponse(up) ==
    up.net = "response" /\ up.status # 429 /\ up.status \notin 200..299

TransientFailure(up) == up.net \in {"Timeout", "ConnectionError"}

\* C1: a response with a non-2xx status other than 429 is never retried: no
\* outbound call follows it within the request, and the request ends by
\* raising ApiError with the status of that response.
C1_ApiErrorNeverRetried ==
    /\ \A i \in 1..(Len(responses) - 1) : ~HttpErrorResponse(responses[i])
    /\ (pc \in {"returned", "raised"} /\ HttpErrorResponse(responses[Len(responses)]))
          => outcome = Raise("ApiError", responses[Len(responses)].status)

\* C2: when every attempt fails with a timeout or a connection error, the
\* request raises NetworkError after the first attempt and max_retries
\* retries, max_retries being the value configured on the service.
C2_RetriesFollowConfiguredLimit ==
    (pc = "raised" /\ \A i \in 1..Len(responses) : TransientFailure(responses[i]))
      => /\ outcome.kind = "NetworkError"
         /\ http_calls = max_retries + 1

-----------------------------------------------------------------------------
(* Claims about the rate-limit gate *)

\* C3: any two consecutive outbound HTTP calls of the process are at least
\* the minimum request interval apart, whichever service instance and
\* whichever request path (synchronous or asynchronous) issues them.
C3_GlobalRequestSpacing ==
    Len(wire) = 2 => wire[2].t - wire[1].t >= MinRequestInterval

\* The normalized form of what the caller wrote, when it is a date.
IsDate(d) == ValidateJalaliDate(Raw(d)).ok
Normalized(d) == ValidateJalaliDate(Raw(d)).norm

Chars1403_01_01(sep) == <<"1", "4", "0", "3", sep, "0", "1", sep, "0", "1">>

StartAfterEndRequested ==
    /\ op_pc # "idle"
    /\ op_call.target # "nonstring"
    /\ ~(op_call.name \in DateOptionalOperations /\ op_call.ignore_date)
    /\ IsDate(op_call.start_date)
    /\ IsDate(op_call.end_date)
    /\ ~StrLessEq(Normalized(op_call.start_date), Normalized(op_call.end_date))

ReturnedTrades == IF th_outcome.kind = "DataFrame" THEN th_outcome.df ELSE <<>>

\* The number of trades the upstream delivered over the first n days fetched.
RECURSIVE TradesDelivered(_)
TradesDelivered(n) ==
    IF n = 0 THEN 0 ELSE Len(day_fetch[n].trades) + TradesDelivered(n - 1)

DayFailed(i) == day_fetch[i].res # "response"

C5_MalformedRowDropped ==
    (/\ trading_days # <<>>
     /\ \E i \in 1..Len(feed) : feed[i].kind = "malformed")
      => th_outcome # Raise("ApiError", 0)

\* C8: the table returned by the multi-day fetch is in ascending order of
\* trading date, whatever order the feed lists the days in.
C8_ResultAscendingByDate ==
    \A r \in 1..(Len(ReturnedTrades) - 1) :
        StrLessEq(ReturnedTrades[r].J_Date, ReturnedTrades[r + 1].J_Date)

\* Any limit on concurrent fetches below the number of units.
ConcurrencyLimit == MaxObDays - 1

\* C6: during the fan-out of get_intraday_ob_history the number of per-day
\* fetches in flight never exceeds a concurrency limit.
C6_InFlightWithinLimit == InFlight <= ConcurrencyLimit

\* The table the order-book operation returned, or the empty table.
ReturnedBook == IF ob_outcome.kind = "DataFrame" THEN ob_outcome.df ELSE <<>>

\* The rows of the days' frames, day after day in the order of the day list.
RECURSIVE RowsInDayOrder(_)
RowsInDayOrder(n) ==
    IF n = 0 THEN <<>> ELSE RowsInDayOrder(n - 1) \o task_frame[n]

\* C7: the row order of the table get_intraday_ob_history returns does not
\* depend on the order in which the per-day fetches complete: it is the rows
\* of the days in the order of the day list, whatever the completion order.
C7_OutputIndependentOfCompletion ==
    ob_pc = "done" => ReturnedBook = RowsInDayOrder(Len(ob_days))

\* Two days with rows were fetched, the second finished first, and the table
\* has been returned.
C7_Witness ==
    /\ ob_pc = "done"
    /\ ob_outcome.kind = "DataFrame"
    /\ Len(ob_days) = 2
    /\ completion = <<2, 1>>
    /\ task_frame[1] # <<>>
    /\ task_frame[2] # <<>>

-----------------------------------------------------------------------------
(* Claims about the calendar functions *)

\* The leap years among the years the arguments are written with.
LeapYearsWritten == {1300, 1403}

\* The length of a month of the local calendar.
LocalMonthLength(y, m) ==
    IF m <= 6 THEN 31
    ELSE IF m <= 11 THEN 30
    ELSE IF y \in LeapYearsWritten THEN 30 ELSE 29

\* The argument is a valid local date written year, month, day.
ValidWritten(d) ==
    /\ d.kind = "date"
    /\ d.year \in 1300..1450
    /\ d.month \in 1..12
    /\ d.day >= 1
    /\ d.day <= LocalMonthLength(d.year, d.month)

\* The one free text among the arguments that denotes a date: 1403-01-02
\* written with spaces around it and two different separators.
SpacedMixedDate ==
    Text(<<" ", "1", "4", "0", "3", "/", "0", "1", ".", "0", "2", " ">>)

\* s is YYYY-MM-DD, zero-padded, and denotes year y, month m, day d.
Canonical(s, y, m, d) ==
    /\ Len(s) = 10
    /\ s[5] = "-" /\ s[8] = "-"
    /\ \A i \in {1, 2, 3, 4, 6, 7, 9, 10} : IsDigit(s[i])
    /\ DigitsValue(SubSeq(s, 1, 4)) = y
    /\ DigitsValue(SubSeq(s, 6, 7)) = m
    /\ DigitsValue(SubSeq(s, 9, 10)) = d

C12_InvalidDatesRaiseValidationError ==
    (~ValidWritten(cal_in) /\ cal_in # SpacedMixedDate)
      => /\ cal_pc # "input"
              => ~cal_valid.ok /\ cal_valid.raised = "ValidationError"
         /\ cal_pc \in {"converted", "back"}
              => cal_greg = RaisedFrom("ValidationError")

\* "1403-13-01" has been given to both functions, which raised.
C12_Witness ==
    /\ cal_pc = "converted"
    /\ cal_in = Written(1403, 13, 1, "-", TRUE)
    /\ cal_valid.raised = "ValidationError"
    /\ cal_greg.tag = "raise"

\* C13: for every valid local date d of 1300..1450,
\* convert_gregorian_to_jalali(convert_jalali_to_gregorian(d)) is the
\* normalized form of d.
C13_RoundTrip ==
    (cal_pc # "input" /\ cal_valid.ok)
      => /\ cal_pc \in {"converted", "back"} => cal_greg.kind = "date"
         /\ cal_pc = "back" => cal_back = cal_valid.norm

\* "1403/01/01" went to 2024-03-20 and came back as "1403-01-01".
C13_Witness ==
    /\ cal_pc = "back"
    /\ cal_in = Written(1403, 1, 1, "/", TRUE)
    /\ cal_greg = GDate([year |-> 2024, month |-> 3, day |-> 20])
    /\ cal_back = <<"1", "4", "0", "3", "-", "0", "1", "-", "0", "1">>

-----------------------------------------------------------------------------
(* Claims about the price-history parser *)

\* The rows of the input set that have nine numeric fields after a date of
\* eight digits that is a day of the Gregorian calendar.
WellFormedLines == {PlainLine, LastOfOctoberLine, DecimalLine}

\* The records of the returned frame that came from line i.
RecordsOf(i) == {k \in 1..Len(pp_frame) : pp_source[k] = i}

\* C14: the parsed price history has no record for a row with fewer than 9
\* fields and exactly one record for every well-formed row, in input order.
C14_ShortRowsDroppedOthersKept ==
    pp_pc \in {"parsed", "done"}
      => /\ \A i \in 1..Len(pp_lines) :
               Len(Split(pp_lines[i], ",")) < 9 => RecordsOf(i) = {}
         /\ \A i \in 1..Len(pp_lines) :
               pp_lines[i] \in WellFormedLines => Cardinality(RecordsOf(i)) = 1
         /\ \A k, l \in 1..Len(pp_frame) : k < l => pp_source[k] < pp_source[l]

\* C15: the row 20240320,105,95,100,101,50,1000,100000,99 is parsed into one
\* record with the fields in the order date, high, low, close, last, count,
\* volume, value, open, whose date is the local date the calendar converter
\* gives for 2024-03-20.
C15_FieldOrderAndLocalDate ==
    \A k \in 1..Len(pp_frame) :
        pp_lines[pp_source[k]] = PlainLine
          => /\ pp_frame[k].Date =
                   ConvertGregorianToJalali([year |-> 2024, month |-> 3, day |-> 20])
             /\ pp_frame[k].High = Num(105, <<>>)
             /\ pp_frame[k].Low = Num(95, <<>>)
             /\ pp_frame[k].Close = Num(100, <<>>)
             /\ pp_frame[k].Last = Num(101, <<>>)
             /\ pp_frame[k].Count = Num(50, <<>>)
             /\ pp_frame[k].Volume = Num(1000, <<>>)
             /\ pp_frame[k].Value = Num(100000, <<>>)
             /\ pp_frame[k].Open = Num(99, <<>>)

\* The position of each column in a row.
FieldOf ==
    [Open |-> 9, High |-> 2, Low |-> 3, Close |-> 4, Last |-> 5,
     Count |-> 6, Volume |-> 7, Value |-> 8]

\* The text is a decimal number.
IsNumber(text) == ParseFloat(text).kind = "num"

\* The rows of the input set with nine fields and a date the parser takes.
DatedLines == {PlainLine, GapsLine, InfiniteCountLine, DecimalLine}

\* C16: a numeric field that fails numeric parsing becomes absent, never
\* zero, the row is still emitted with its other fields, and _clean_dataframe
\* keeps the row.
C16_UnparsedFieldAbsentRowKept ==
    pp_pc \in {"parsed", "done"}
      => \A i \in 1..Len(pp_lines) :
            pp_lines[i] \in DatedLines
              => \E k \in RecordsOf(i) :
                    /\ \A c \in NumericColumns :
                          IF IsNumber(Split(pp_lines[i], ",")[FieldOf[c]])
                            THEN pp_frame[k][c].kind = "num"
                            ELSE pp_frame[k][c] = Absent
                    /\ pp_pc = "done" => pp_clean.rows[k] = pp_frame[k]


-----------------------------------------------------------------------------
(* Claims on the order of a day's trades *)

\* The value an element of tradeHistory holds under a key.
Field(row, key) == row[CHOOSE i \in 1..Len(row) : row[i].key = key].val

\* The elements of a payload in ascending order of their sequence number.
RECURSIVE InSequence(_)
InSequence(ts) ==
    IF ts = <<>> THEN <<>>
    ELSE LET k == CHOOSE i \in 1..Len(ts) :
                      \A j \in 1..Len(ts) : Field(ts[i], "nTran") <= Field(ts[j], "nTran")
         IN <<ts[k]>> \o InSequence([i \in 1..(Len(ts) - 1) |->
                                         IF i < k THEN ts[i] ELSE ts[i + 1]])

\* C18: within one trading day's output the trades are in ascending order of
\* the upstream sequence number, whatever order they arrived in, and the
\* records carry no sequence field: the frame of the day fetched last holds
\* the records of the day's trades taken in the order of their nTran.
C18_DayTradesInSequenceOrder ==
    LET n == Len(day_fetch)
    IN (n > 0 /\ day_fetch[n].trades # <<>>)
         => LET frame == results[Len(results)]
                ordered == InSequence(day_fetch[n].trades)
            IN /\ Len(frame) = Len(ordered)
               /\ \A k \in 1..Len(frame) :
                     /\ frame[k] = TradeRecord(trading_days[n], Columns(ordered[k]))
                     /\ "nTran" \notin DOMAIN frame[k]


-----------------------------------------------------------------------------
(* Claims on the histories that find nothing *)

\* A per-day unit of the trades history failed or yielded no record.
NoTradesOn(i) == day_fetch[i].res # "response" \/ day_fetch[i].trades = <<>>

\* C19: when the list of trading days of the range is empty, or every per-day
\* unit fails or yields no records, get_intraday_trades_history and
\* get_intraday_ob_history end with DataError: the step that ends either
\* operation in such a case sets its outcome to DataError, never to a
\* network or API error and never to a table.
C19_NothingFoundIsDataError ==
    [][ /\ (/\ th_pc = "parsing" /\ th_pc' = "done"
            /\ feed' = feed /\ trading_days = <<>>)
              => th_outcome' = Raise("DataError", 0)
        /\ (/\ th_pc = "fetching" /\ th_pc' = "done"
            /\ \A i \in 1..Len(day_fetch) : NoTradesOn(i))
              => th_outcome' = Raise("DataError", 0)
        /\ (ob_pc = "idle" /\ ob_pc' = "done" /\ ob_days' = <<>>)
              => ob_outcome' = Raise("DataError", 0)
        /\ (/\ ob_pc = "gathering" /\ ob_pc' = "done"
            /\ \A i \in 1..Len(task_frame) : task_frame[i] = <<>>)
              => ob_outcome' = Raise("DataError", 0)
      ]_vars

\* The order-book history had two trading days; the threshold request of one
\* failed and the book of the other held no row, and it ended with DataError.
C19_Witness ==
    /\ ob_pc = "done"
    /\ Len(ob_days) = 2
    /\ \E i \in 1..2 : task_limits[i] = NoLimits /\ task_limits[3 - i] # NoLimits
    /\ \A i \in 1..2 : task_frame[i] = <<>>
    /\ ob_outcome = Raise("DataError", 0)


-----------------------------------------------------------------------------
(* Claims on the error raised for HTTP 429 *)

\* The request ended by raising after a last response of status 429.
RaisedOn429 ==
    /\ pc = "raised"
    /\ responses # <<>>
    /\ responses[Len(responses)].net = "response"
    /\ responses[Len(responses)].status = 429

\* The retry hint the raised error carries.
RetryHint == IF outcome.kind = "RateLimitError" THEN RateLimitExceeded.retry_after ELSE None

\* C20: an HTTP 429 response is mapped to RateLimitError, distinct from
\* ApiError, and the raised error carries a retry hint, set to a default
\* value as the upstream gave no Retry-After.
C20_RateLimitErrorCarriesHint ==
    RaisedOn429
      => /\ outcome.kind = "RateLimitError"
         /\ outcome.kind # "ApiError"
         /\ RetryHint # None

\* The part of C20 on the kind of the error alone.
C20_KindOnly == RaisedOn429 => outcome.kind = "RateLimitError"


-----------------------------------------------------------------------------
(* Claims on the index history *)

\* The days a feed lists.
OhlcDays == { DateKey(ToDatetime(ix_ohlc[i][1])) : i \in {k \in DOMAIN ix_ohlc : ix_ohlc[k][1] # <<>>} }
AdjCloseDays == { ix_adj[i].dEven : i \in DOMAIN ix_adj }

\* The table the index operation returned, or the empty table.
ReturnedIndex == IF ix_outcome.kind = "DataFrame" THEN ix_outcome.df ELSE <<>>

\* The local date of a day of the feeds.
LocalDate(d) == JalaliString(ToDatetime(Digits(d)))

HasRow(d) == \E k \in DOMAIN ReturnedIndex : ReturnedIndex[k].J_Date = LocalDate(d)

\* C17: an index history that combines the OHLC feed and the adjusted-close
\* feed has rows only for the dates present in both feeds: a date that one
\* of the feeds lacks has no row in the result.
C17_RowsOnlyForDatesInBothFeeds ==
    (ix_pc = "done" /\ ~ix_args.just_adj_close)
      => \A d \in IndexDays : HasRow(d) => (d \in OhlcDays /\ d \in AdjCloseDays)

\* The adjusted-close feed lists 2024-03-22 and the OHLC feed does not; the
\* result has rows for the two days both list and none for 2024-03-22.
C17_Witness ==
    /\ ix_pc = "done"
    /\ ~ix_args.just_adj_close
    /\ AdjCloseDays = {20240320, 20240321, 20240322}
    /\ OhlcDays = {20240320, 20240321}
    /\ Len(ReturnedIndex) = 2
    /\ HasRow(20240320) /\ HasRow(20240321) /\ ~HasRow(20240322)


-----------------------------------------------------------------------------
(* Claims on the cap of the intraday history *)

\* The days fetched, and the DayCap latest days of the list.
FetchedDays == { trading_days[i] : i \in 1..Len(day_fetch) }

ListedDays == { trading_days[i] : i \in 1..Len(trading_days) }

MostRecentDays ==
    { d \in ListedDays :
        Cardinality({ e \in ListedDays : e # d /\ StrLessEq(d, e) }) < DayCap }

\* C21: when the range holds more trading days than the cap of 5,
\* get_intraday_trades_history fetches exactly cap-many days and these are
\* the most recent days of the range, whatever order the feed lists them in.
C21_CapKeepsMostRecentDays ==
    (th_pc = "done" /\ Len(trading_days) > DayCap)
      => /\ Len(day_fetch) = DayCap
         /\ FetchedDays = MostRecentDays

\* The part of C21 on the number of days fetched alone.
C21_CapManyDaysFetched ==
    (th_pc = "done" /\ Len(trading_days) > DayCap) => Len(day_fetch) = DayCap


-----------------------------------------------------------------------------
(* Claims on _rate_limit *)

\* The call the step has put on the wire, when it went through _rate_limit
\* on instance s.
RateLimited(s) ==
    /\ wire' # wire
    /\ wire'[Len(wire')].path = "sync"
    /\ wire'[Len(wire')].svc = s

-----------------------------------------------------------------------------
(* Claims on the retry wrapper *)

RECURSIVE Power(_, _)
Power(b, e) == IF e = 0 THEN 1 ELSE b * Power(b, e - 1)

\* The attempts of the current call that have failed.
FailedAttempts == IF pc = "returned" THEN http_calls - 1 ELSE http_calls

\* C26: the wrapper backs off exponentially from a fixed base delay: after
\* the k-th failed attempt it waits RetryDelay * BackoffFactor^(k-1), after
\* the final failed attempt it does not wait, and every new call starts
\* again from the base delay.
C26_ExponentialBackoff ==
    /\ \A k \in 1..Len(slept) : slept[k] = RetryDelay * Power(BackoffFactor, k - 1)
    /\ pc \in {"attempt", "returned"} => Len(slept) = FailedAttempts
    /\ pc = "raised" => Len(slept) = FailedAttempts - 1

\* The second call of the process has failed three times and waited the base
\* delay, twice and four times the base delay.
C26_Witness ==
    /\ requests_made = 2
    /\ pc = "attempt"
    /\ http_calls = 3
    /\ slept = <<RetryDelay, 2 * RetryDelay, 4 * RetryDelay>>

\* C27: every call of the wrapped operation ends after at most the retry
\* budget plus one attempts: it returns the result of the first attempt that
\* succeeds and attempts nothing after it, or raises the exception of the
\* last attempt when every attempt failed.
C27_BoundedAttempts ==
    /\ http_calls <= DecoratorMaxRetries + 1
    /\ http_calls = Len(responses)
    /\ pc = "returned"
         => /\ outcome = MakeRequestBody(responses[Len(responses)])
            /\ outcome.tag = "return"
            /\ \A i \in 1..(Len(responses) - 1) : MakeRequestBody(responses[i]).tag = "raise"
    /\ pc = "raised"
         => /\ http_calls = DecoratorMaxRetries + 1
            /\ \A i \in 1..Len(responses) : MakeRequestBody(responses[i]).tag = "raise"
            /\ outcome = MakeRequestBody(responses[Len(responses)])

\* Three attempts failed, each in another way, and the fourth returned.
C27_Witness ==
    /\ pc = "returned"
    /\ http_calls = DecoratorMaxRetries + 1
    /\ responses[1].net = "Timeout"
    /\ responses[2].status = 500
    /\ responses[3].status = 429
    /\ outcome = Return(responses[4])


-----------------------------------------------------------------------------
(* Claims on the message of a rejected date range *)

StartsWith(text, prefix) == Len(text) >= Len(prefix) /\ SubSeq(text, 1, Len(prefix)) = prefix

NamesStart == StartsWith(range_message, <<"I", "n", "v", "a", "l", "i", "d", " ", "s", "t", "a", "r", "t", " ", "d", "a", "t", "e", " ", "f", "o", "r", "m", "a", "t">>)
NamesEnd == StartsWith(range_message, <<"I", "n", "v", "a", "l", "i", "d", " ", "e", "n", "d", " ", "d", "a", "t", "e", " ", "f", "o", "r", "m", "a", "t">>)

\* C30: when _validate_date_range rejects a pair because one of the dates is
\* not a valid date, the error names the offending side: "Invalid start date
\* format" for an invalid start date, "Invalid end date format" for an
\* invalid end date after a valid start date, whatever separator the dates
\* are written with.
C30_MessageNamesOffendingSide ==
    range_result # None
      => /\ ~IsDate(start_in) => NamesStart
         /\ (IsDate(start_in) /\ ~IsDate(end_in)) => NamesEnd

\* C30 for the dates written with '-' and no surrounding blanks, an invalid
\* end date not holding the start date.
C30_HyphenatedOnly ==
    (/\ range_result # None
     /\ Raw(start_in) = SubSeparators(Strip(Raw(start_in)))
     /\ ~Contains(ValidationErrorStr(Raw(end_in)), Raw(start_in)))
      => /\ ~IsDate(start_in) => NamesStart
         /\ (IsDate(start_in) /\ ~IsDate(end_in)) => NamesEnd


-----------------------------------------------------------------------------
(* Claims on the date filter of the price history *)

Filtered == IF fl_result = None THEN <<>> ELSE fl_result.df

\* C29: every row of the table the date-filtered fetch returns has a date d
\* with start_date <= d <= end_date, and the rows are in ascending order of
\* date: no row outside the range asked for is returned.
C29_RowsWithinRangeAscending ==
    /\ \A k \in 1..Len(Filtered) :
          /\ StrLessEq(fl_range.start_date, Filtered[k].Date)
          /\ StrLessEq(Filtered[k].Date, fl_range.end_date)
    /\ \A k \in 1..(Len(Filtered) - 1) : StrLessEq(Filtered[k].Date, Filtered[k + 1].Date)

\* C29 for the ranges whose two ends pd.to_datetime accepts.
C29_WhenRangeParses ==
    (/\ TimestampOk(fl_range.start_date, fl_nanoseconds)
     /\ TimestampOk(fl_range.end_date, fl_nanoseconds))
      => C29_RowsWithinRangeAscending



-----------------------------------------------------------------------------
(* Claims on the resolution of the stock name *)

\* The instrument searches the operation in progress has performed: the
\* "search" steps of its try block that lie behind op_step.
Resolutions ==
    Cardinality({ i \in 1..Len(OperationSteps(op_call.name)) :
                    i < op_step /\ OperationSteps(op_call.name)[i] = "search" })

\* C23: an operation on a stock that has left its validation and come to its
\* end has resolved the stock name exactly once (one instrument search), the
\* web id being reused by every later fetch.
C23_OneResolutionPerOperation ==
    (/\ op_pc = "done"
     /\ op_call.name \in StockOperations
     /\ ValidateCall(op_call).tag # "raise")
      => Resolutions = 1

\* C23 for the intraday operations, which call get_web_id alone.
C23_IntradayResolvesOnce ==
    (/\ op_pc = "done"
     /\ op_call.name \in {"get_intraday_trades_history", "get_intraday_ob_history"}
     /\ ValidateCall(op_call).tag # "raise")
      => Resolutions = 1



-----------------------------------------------------------------------------
(* Claims on the stock search *)

\* The rows of the table search returned
SearchRows ==
    IF se_pc = "done" /\ se_result.tag = "return"
      THEN { se_result.df[k] : k \in 1..Len(se_result.df) } ELSE {}

Known == { StockMapping[k] : k \in 1..Len(StockMapping) }

\* C24: a search whose upstream responses held no result, for a query the
\* known mappings do not match either, raises NotFoundError; and no row of
\* a returned table is of an instrument that neither an upstream response
\* nor a known mapping contained.
C24_NothingFoundRaisesNotFound ==
    (se_pc = "done" /\ se_result # Raise("ValidationError", 0))
      => /\ SearchRows \subseteq (se_listed \cup Known)
         /\ (se_listed = {} /\ FallbackSearch(clean_persian_text(Strip(Raw(se_query)))) = <<>>)
              => se_result = Raise("NotFoundError", 0)

\* C24 for the searches that an upstream response or a mapping answers.
C24_FoundRowsAreListedOrKnown ==
    (/\ se_pc = "done"
     /\ se_result # Raise("ValidationError", 0)
     /\ se_listed # {} \/ FallbackSearch(clean_persian_text(Strip(Raw(se_query)))) # <<>>)
      => /\ SearchRows # {}
         /\ SearchRows \subseteq (se_listed \cup Known)



-----------------------------------------------------------------------------
(* Claims on the natural keys of the assembled tables *)

\* C22: the table a single-instrument price history is made of has at most
\* one row per date, also when the upstream payload repeats a date.
C22_OneRowPerDate ==
    \A k, l \in 1..Len(Filtered) : Filtered[k].Date = Filtered[l].Date => k = l

StockList == IF sl_result # None /\ sl_result.tag = "return" THEN sl_result.df ELSE <<>>

\* C22 for build_stock_list: at most one row per ticker.
C22_OneRowPerTicker ==
    \A k, l \in 1..Len(StockList) : StockList[k].Ticker = StockList[l].Ticker => k = l

\* C22 for build_stock_list without the detailed information: one row per
\* ticker, and the row kept is the first the listings hold for it.
C22_PlainStockListKeepsFirst ==
    (sl_result # None /\ ~sl_args.detailed_list)
      => /\ C22_OneRowPerTicker
         /\ LET listed == (IF "bourse" \in sl_args.markets
                             THEN GetMarketStocks(sl_pages.bourse, "bourse") ELSE <<>>)
                            \o (IF "farabourse" \in sl_args.markets
                                  THEN GetMarketStocks(sl_pages.farabourse, "farabourse") ELSE <<>>)
                            \o (IF "payeh" \in sl_args.markets
                                  THEN GetPayehStocks(sl_pages.payeh) ELSE <<>>)
            IN \A k \in 1..Len(StockList) :
                  \E i \in 1..Len(listed) :
                      /\ listed[i] = StockList[k]
                      /\ \A j \in 1..(i - 1) : listed[j].Ticker # StockList[k].Ticker



-----------------------------------------------------------------------------
(* Claims on the errors that leave a public fetch operation *)

\* C28: an error that leaves a public fetch operation is one of the
\* package's typed errors: an exception raised inside the operation that is
\* not a TSETMCError leaves as ApiError, a TSETMCError leaves with its kind
\* unchanged.
C28_OnlyTypedErrorsLeave ==
    (op_pc = "done" /\ op_outcome.tag = "raise")
      => /\ op_outcome.kind \in TSETMCErrors
         /\ op_raised \in TSETMCErrors => op_outcome.kind = op_raised
         /\ (op_raised # "" /\ op_raised \notin TSETMCErrors) => op_outcome.kind = "ApiError"

\* C28 for the exceptions raised inside the try block of the operation.
C28_TryBlockSurfacesTyped ==
    (op_pc = "done" /\ op_raised # "")
      => op_outcome = Raise(IF op_raised \in TSETMCErrors THEN op_raised ELSE "ApiError", 0)

\* A KeyError raised while the market watch was parsed has left as ApiError.
C28_TryBlockWitness ==
    /\ op_pc = "done"
    /\ op_call.name = "get_market_watch"
    /\ op_raised = "KeyError"
    /\ op_outcome = Raise("ApiError", 0)

=============================================================================
